---- MODULE Spec2Model ----
(***************************************************************************)
(* Lazy delivery (promise objects) and query-filter composition of the     *)
(* remoteobjects library.                                                  *)
(*                                                                         *)
(* Two modules of the repository define promise objects:                   *)
(*   src/remoteobjects/promise.py  PromiseObject (api_data property)       *)
(*   src/promise.py                PromiseObject (__getattr__), ListObject *)
(* Definitions named after src/remoteobjects/promise.py keep the source    *)
(* name; those of the top-level module src/promise.py carry the prefix     *)
(* top_ (and ListObject_ for the methods of ListObject).                   *)
(*                                                                         *)
(* HttpObject, DataObject and the fields module are not part of the        *)
(* sources at hand; what the promise code calls in them is modelled from   *)
(* the specification (the Http... , Data... and Field... definitions).     *)
(***************************************************************************)
EXTENDS Integers, Sequences, FiniteSets, TLC

VARIABLES obj, requests, result, depth, failed, heap, classes_by_name, declared,
          threads, hashseed

vars == <<obj, requests, result, depth, failed, heap, classes_by_name, declared,
         threads, hashseed>>

\* ------------------------------------------------------------------ bounds

\* Number of transport requests a behaviour issues.
MaxRequests == 2

\* Length of a chain of filters, each applied to the result of the one before.
MaxDepth == 1

\* ------------------------------------------------------------ python values

\* A Python value passed as a keyword argument or held in a dictionary:
\* a str or an int.
StrV(s) == [str |-> s]
IntV(n) == [int |-> n]

IsInt(v) == "int" \in DOMAIN v

Digits == <<"0", "1", "2", "3", "4", "5", "6", "7", "8", "9">>

RECURSIVE NatStr(_)
NatStr(n) == IF n < 10 THEN Digits[n + 1]
             ELSE NatStr(n \div 10) \o Digits[(n % 10) + 1]

\* str(v), as urllib.urlencode applies it to every value.
PyStr(v) == IF IsInt(v)
            THEN (IF v.int < 0 THEN "-" \o NatStr(0 - v.int) ELSE NatStr(v.int))
            ELSE v.str

\* The texts of the model that hold a space, each with the text that has
\* "+" in the place of every space; every other text that is quoted or
\* unquoted holds only letters, digits and "-", which are never escaped.
Spaced == ("so so" :> "so+so") @@ ("the matrix" :> "the+matrix")

\* urllib.quote_plus and its inverse (cgi.parse_qs unquotes what it reads):
\* a space travels as "+".
quote_plus(s) == IF s \in DOMAIN Spaced THEN Spaced[s] ELSE s
unquote_plus(s) ==
    IF \E t \in DOMAIN Spaced : Spaced[t] = s
    THEN CHOOSE t \in DOMAIN Spaced : Spaced[t] = s
    ELSE s

\* The empty dictionary, and the keyword-argument dictionaries.
EmptyDict == <<>>

\* ------------------------------------------------------------------- URLs

\* None, as the value of _location.
NoneLoc == [none |-> TRUE]

\* A URL: everything before the "?" and the query string as the sequence of
\* its "key=value" pairs, in textual order, values as written (escaped).
Url(base, query) == [base |-> base, query |-> query]

IsUrl(l) == "base" \in DOMAIN l

\* None, as the value of _http.
NoneHttp == "None"

\* ------------------------------------------------------------------- heap

\* The dictionaries a caller keeps a reference to live in cells of the heap:
\* cells gives each cell's dictionary, initial is the cell of the mapping the
\* caller last built and d the cell of the mapping the instance last handed
\* to the caller ("None" when there is none).  A dictionary nobody else
\* refers to is held in place, as a function.  assigned keeps the fields of
\* the instance the caller has assigned to.
Heap(cells, initial, d, assigned) ==
    [cells |-> cells, initial |-> initial, d |-> d, assigned |-> assigned]

EmptyHeap == Heap(EmptyDict, "None", "None", {})

\* A reference to the dictionary in a cell, and the dictionary a value of
\* dictionary type stands for.
Ref(cell) == ("@" :> cell)
IsRef(data) == DOMAIN data = {"@"}
Deref(data) == IF IsRef(data) THEN heap.cells[data["@"]] ELSE data

\* A value of a dictionary is a text (None is "None"), or the name of the
\* cell of a dictionary nested in it.
IsCell(v) == v \in DOMAIN heap.cells

\* A dictionary handed over by reference: the cell it lives in, and the cells
\* it is made of at the time of the call.
ByRef(cell, cells) == [isdict |-> TRUE, items |-> Ref(cell), cells |-> cells]

\* The entries of a dictionary d handed over: its own, or those of its cell.
Pointee(d) == IF IsRef(d.items) THEN d.cells[d.items["@"]] ELSE d.items

\* ---------------------------------------------------------------- classes

PromiseObject == "remoteobjects.promise.PromiseObject"
top_PromiseObject == "promise.PromiseObject"
ListObject == "promise.ListObject"

Classes == {PromiseObject, top_PromiseObject, ListObject}

\* The promise classes of examples/netflix.py, which derive from Flixject.
Title == "examples.netflix.Title"
Catalog == "examples.netflix.Catalog"
FlixClasses == {Title, Catalog}

\* Classes defined in the top-level module src/promise.py.
TopClasses == {top_PromiseObject, ListObject}

\* The classes of test_awesome, derived from the promise class: a Room, and
\* the Toy its toybox links to.
Room == "Room"
Toy == "Toy"

\* The declared fields of the classes the tests derive (Tiny, Toy).
Fields == {"name"}

\* fields.Field(default=...): a plain field, its wire name the name of the
\* attribute, with the value it has when the data has no such key.
Field(default) == [kind |-> "Field", default |-> default]

\* The class test_field_default declares on dataobject.DataObject: a field
\* without a default, a field with a static one and a field whose default
\* is what a callable returns.
WithDefaults == "WithDefaults"

\* The classes derived from dataobject.DataObject and not from a promise
\* class: their instances have no location, no transport, no delivered flag
\* and no deliver().
DataObjectClasses == {WithDefaults}

\* cls.fields: the plain fields a class declares, by attribute name.  The
\* classes under test stand for the Tiny of test_basic; a class that declares
\* links or references only has no plain field.
fields(cls) ==
    IF cls = WithDefaults
    THEN ("plain" :> Field("None")) @@ ("itsAlwaysSomething" :> Field("7"))
            @@ ("itsUsuallySomething" :> Field("CHEEZBURGH"))
    ELSE IF cls = Catalog
    THEN [f \in {"results", "total", "offset", "limit"} |-> Field("None")]
    ELSE IF cls = Title
    THEN [f \in {"api_url", "title", "link", "thumb"} |-> Field("None")]
    ELSE IF cls \in {PromiseObject, top_PromiseObject, ListObject, Toy}
    THEN [f \in Fields |-> Field("None")]
    ELSE EmptyDict

\* Exceptions.
NoError == "None"
PromiseError == "PromiseError"
AttributeError == "AttributeError"
TypeError == "TypeError"
TransportError == "TransportError"
ResponseError == "ResponseError"
ContentTypeError == "ContentTypeError"
ParseError == "ParseError"
IndexError == "IndexError"
KeyError == "KeyError"
ValueError == "ValueError"

\* ------------------------------------------------------------ the transport

\* The transports a caller may pass to get(); with None the request goes to
\* the module-wide remoteobjects.http.userAgent.
Https == {NoneHttp, "h"}

\* A decoded response body: a JSON object (a dict) or some other JSON value.
DictBody(items) == [isdict |-> TRUE, items |-> items]
NonDictBody == [isdict |-> FALSE, items |-> ("[0]" :> "Mollifred")]

\* The data is a dictionary, and not a list (whose items are under "[0]").
IsDict(data) == "[0]" \notin DOMAIN data

\* What the api_data of an instance is once the attribute is deleted.
NoAttribute == ("<no attribute>" :> "")
HasApiData(o) == "<no attribute>" \notin DOMAIN o.api_data

Mollifred == ("name" :> "Mollifred")

\* The body of a list resource: its elements under the key "entries".
Toys == ("name" :> "Mollifred") @@ ("entries" :> <<"Mollifred", "Fredina">>)

Bodies == {DictBody(Mollifred), DictBody(Toys), NonDictBody}

\* What one http.request() call does: it raises, or returns a response.
TransportRaises == [raises |-> TRUE, status |-> 0, ctype |-> "", body |-> NonDictBody]
Response(status, ctype, body) ==
    [raises |-> FALSE, status |-> status, ctype |-> ctype, body |-> body]

Responses ==
    {TransportRaises,
     Response(404, "application/json", DictBody(Mollifred)),
     Response(200, "text/html", DictBody(Mollifred))}
    \cup {Response(200, "application/json", b) : b \in Bodies}

\* --------------------------------------------------------------- outcomes

\* What a call does to its receiver and hands to its caller: the receiver
\* afterwards, the exception raised (NoError when it returns), the number of
\* transport requests issued, and the value returned.
Outcome(o, exc, sent, val) == [obj |-> o, exc |-> exc, sent |-> sent, val |-> val]

Return(o, val) == Outcome(o, NoError, 0, val)
Raise(o, exc) == Outcome(o, exc, 0, "None")

\* A call followed by the requests already issued on the way to it.
AddSent(r, n) == [r EXCEPT !.sent = @ + n]

\* ------------------------------------------------------------- instances

\* HttpObject.__init__ and DataObject.__init__: no location, empty data,
\* no locally stored field value.  via records how the caller obtained the
\* instance; id is its identity, 0 until the heap has placed it.
HttpObject__init__(cls) ==
    [cls |-> cls, _delivered |-> FALSE, _http |-> NoneHttp,
     _location |-> NoneLoc, api_data |-> EmptyDict, dict |-> EmptyDict,
     via |-> "__init__", id |-> 0]

\* DataObject.__init__: empty data, no locally stored field value.
DataObject__init__(cls) ==
    [cls |-> cls, api_data |-> EmptyDict, dict |-> EmptyDict,
     via |-> "__init__", id |-> 0]

\* The instance is of a promise class.
IsPromise(o) == "_delivered" \in DOMAIN o

\* __init__ that starts the instance undelivered.
__init__undelivered(cls) ==
    [HttpObject__init__(cls) EXCEPT !._delivered = FALSE, !._http = NoneHttp]

\* remoteobjects/promise.py PromiseObject.__init__: delivered, no transport.
__init__(cls) ==
    [HttpObject__init__(cls) EXCEPT !._delivered = TRUE, !._http = NoneHttp]

\* promise.py PromiseObject.__init__: undelivered, no transport.
top__init__(cls) ==
    [HttpObject__init__(cls) EXCEPT !._delivered = FALSE, !._http = NoneHttp]

\* cls(): the constructor of the instance's class.
New(cls) ==
    IF cls \in DataObjectClasses THEN DataObject__init__(cls)
    ELSE IF cls \in TopClasses THEN top__init__(cls)
    ELSE __init__(cls)

\* get() without line 56: the instance keeps the constructor's delivered flag.
get_keeps_delivered(cls, url, http) ==
    [__init__(cls) EXCEPT !._location = url, !._http = http, !.via = "get"]

\* remoteobjects/promise.py PromiseObject.get.
get(cls, url, http) ==
    [__init__(cls) EXCEPT !._location = url, !._http = http,
                          !._delivered = FALSE, !.via = "get"]

\* promise.py PromiseObject.get.
top_get(cls, url, http) ==
    [top__init__(cls) EXCEPT !._location = url, !._http = http, !.via = "get"]

\* cls.get(url, http).
ClsGet(cls, url, http) ==
    IF cls \in TopClasses THEN top_get(cls, url, http) ELSE get(cls, url, http)

\* ---------------------------------------------------------- installing data

\* update_from_dict that stores only the entries of the declared fields.
update_from_dict_fields_only(o, data) ==
    IF ~data.isdict THEN Raise(o, TypeError)
    ELSE Return([o EXCEPT !.dict = EmptyDict,
                          !.api_data = [k \in DOMAIN Pointee(data)
                                             \cap DOMAIN fields(o.cls) |->
                                           Pointee(data)[k]]], "None")

\* update_from_dict without lines 87-89: the values stored on the instance
\* stay.
update_from_dict_keeps_fields(o, data) ==
    IF ~data.isdict THEN Raise(o, TypeError)
    ELSE Return([o EXCEPT !.api_data = data.items], "None")

\* update_from_dict that clears the stored field values (lines 87-89) before
\* it tests the type of the data (lines 83-85).
update_from_dict_clears_first(o, data) ==
    IF ~data.isdict THEN Raise([o EXCEPT !.dict = EmptyDict], TypeError)
    ELSE Return([o EXCEPT !.dict = EmptyDict, !.api_data = data.items], "None")

\* remoteobjects/promise.py PromiseObject.update_from_dict.
update_from_dict(o, data) ==
    IF ~data.isdict THEN Raise(o, TypeError)
    ELSE Return([o EXCEPT !.dict = EmptyDict, !.api_data = data.items], "None")

\* DataObject.update_from_dict, which the classes of promise.py inherit: the
\* mapping becomes the instance's data and every declared field present in it
\* becomes an attribute of the instance.
DataObject_update_from_dict(o, data) ==
    IF ~data.isdict THEN Raise(o, TypeError)
    ELSE Return([o EXCEPT !.api_data = data.items,
                          !.dict = [f \in Fields \cap DOMAIN data.items |-> data.items[f]]],
                "None")

\* remoteobjects.dataobject.DataObject.update_from_dict, which the classes
\* declared on DataObject inherit: a dictionary replaces the data of the
\* instance and the field values stored on it are cleared.
remoteobjects_DataObject_update_from_dict(o, data) ==
    IF ~data.isdict THEN Raise(o, TypeError)
    ELSE Return([o EXCEPT !.dict = EmptyDict, !.api_data = data.items], "None")

\* self.update_from_dict(data), by the class of self.
SelfUpdateFromDict(o, data) ==
    IF o.cls \in DataObjectClasses THEN remoteobjects_DataObject_update_from_dict(o, data)
    ELSE IF o.cls \in TopClasses THEN DataObject_update_from_dict(o, data)
    ELSE update_from_dict(o, data)

\* HttpObject.update_from_response: the response is validated (status,
\* content type), its body decoded and installed with update_from_dict.
HttpObject_update_from_response(o, url, response) ==
    IF response.status # 200 THEN Raise(o, ResponseError)
    ELSE IF response.ctype # "application/json" THEN Raise(o, ContentTypeError)
    ELSE SelfUpdateFromDict(o, response.body)

\* update_from_response() without line 98: delivery is never recorded.
update_from_response_forgets(o, url, response) ==
    HttpObject_update_from_response(o, url, response)

\* update_from_response() with line 98 before line 96: the instance is marked
\* delivered before the response is validated.
update_from_response_early(o, url, response) ==
    LET r == HttpObject_update_from_response([o EXCEPT !._delivered = TRUE], url, response)
    IN r

\* update_from_response() that takes the delivered mark back before it
\* validates the response, and sets it again after.
update_from_response_resets(o, url, response) ==
    LET r == HttpObject_update_from_response([o EXCEPT !._delivered = FALSE], url, response)
    IN IF r.exc # NoError THEN r
       ELSE [r EXCEPT !.obj._delivered = TRUE]

\* remoteobjects/promise.py PromiseObject.update_from_response.
update_from_response(o, url, response) ==
    LET r == HttpObject_update_from_response(o, url, response)
    IN IF r.exc # NoError THEN r
       ELSE [r EXCEPT !.obj._delivered = TRUE]

\* promise.py PromiseObject.update_from_response.
top_update_from_response(o, url, response) ==
    LET r == HttpObject_update_from_response(o, url, response)
    IN IF r.exc # NoError THEN r
       ELSE [r EXCEPT !.obj._delivered = TRUE]

\* The value a plain Field decodes from the data: the value of its key, or
\* None when the key is absent.
FieldValue(data, attr) == IF attr \in DOMAIN data THEN data[attr] ELSE "None"

\* The content types a class accepts (content_types, netflix.py line 29).
content_types(cls) ==
    IF cls \in FlixClasses THEN {"text/xml", "application/xml"} ELSE {"application/json"}

\* HttpObject.raise_for_response: the exception the response deserves, None
\* when it is a success of an accepted content type.
raise_for_response(o, url, response) ==
    IF response.status # 200 THEN ResponseError
    ELSE IF response.ctype \notin content_types(o.cls) THEN ContentTypeError
    ELSE NoError

\* An element of an XML document: its text, its attributes and the elements
\* nested in it, by tag and in document order.
Element(text, attrs, children) == [text |-> text, attrs |-> attrs, children |-> children]

\* x.findall(tag), x.find(tag) is not None, x.find(tag), e.get(name).
findall(x, tag) == IF tag \in DOMAIN x.children THEN x.children[tag] ELSE <<>>
Has(x, tag) == findall(x, tag) # <<>>
find(x, tag) == findall(x, tag)[1]
Element_get(e, name) == IF name \in DOMAIN e.attrs THEN e.attrs[name] ELSE "None"

\* The greatest number a document of the model holds.
MaxNumber == 25

\* What a callable of a decoder ring does: it returns val, or raises exc.
Decoded(val) == [exc |-> NoError, val |-> val]
Fails(exc) == [exc |-> exc, val |-> "None"]

\* int(text).
int(text) ==
    IF \E n \in 0..MaxNumber : NatStr(n) = text
    THEN Decoded(CHOOSE n \in 0..MaxNumber : NatStr(n) = text)
    ELSE Fails(ValueError)

\* int(x.find(tag).text): find gives None when there is no such element.
int_of(x, tag) == IF Has(x, tag) THEN int(find(x, tag).text) ELSE Fails(AttributeError)

\* x.find(tag).get(name).
attr_of(x, tag, name) ==
    IF Has(x, tag) THEN Decoded(Element_get(find(x, tag), name)) ELSE Fails(AttributeError)

\* The first of a list of outcomes that raises, or the list of the values.
RECURSIVE Collect(_)
Collect(rs) ==
    IF rs = <<>> THEN Decoded(<<>>)
    ELSE IF rs[1].exc # NoError THEN Fails(rs[1].exc)
    ELSE LET rest == Collect(Tail(rs))
         IN IF rest.exc # NoError THEN rest ELSE Decoded(<<rs[1].val>> \o rest.val)

\* The seeds the interpreter may hash strings with (PYTHONHASHSEED): 0 is
\* the default of Python 2.7, in which the hash of a str is fixed.
HashSeeds == {0, 2, 3}

\* The keys of the decoder ring of a class, in the order in which the
\* dictionary iterates: the language leaves it to the interpreter, and
\* CPython 2.7 derives it from the hashes of the keys, which depend on the
\* seed the process was started with.
decoder_ring_keys(cls) ==
    IF cls = Title
    THEN CASE hashseed = 0 -> <<"api_url", "link", "thumb", "title">>
           [] hashseed = 2 -> <<"title", "api_url", "thumb", "link">>
           [] hashseed = 3 -> <<"api_url", "thumb", "link", "title">>
    ELSE CASE hashseed = 0 -> <<"total", "limit", "results", "offset">>
           [] hashseed = 2 -> <<"total", "limit", "results", "offset">>
           [] hashseed = 3 -> <<"total", "results", "limit", "offset">>

RECURSIVE update_from_tree(_, _)

\* decoder_ring[k](x) of Title (lines 78-83) and of Catalog (lines 94-99).
decoder_ring(cls, k, x) ==
    IF cls = Title
    THEN CASE k = "title" -> attr_of(x, "title", "regular")
           [] k = "link" ->
                LET alternate == SelectSeq(findall(x, "link"),
                                           LAMBDA j : Element_get(j, "rel") = "alternate")
                IN IF alternate = <<>> THEN Fails(IndexError)
                   ELSE Decoded(Element_get(alternate[1], "href"))
           [] k = "thumb" -> attr_of(x, "box_art", "large")
           [] k = "api_url" -> Decoded(IF Has(x, "id") THEN find(x, "id") ELSE "None")
    ELSE CASE k = "results" ->
                LET trees == findall(x, "catalog_title")
                    titles == [i \in DOMAIN trees |-> update_from_tree(New(Title), trees[i])]
                IN Collect([i \in DOMAIN trees |->
                               [exc |-> titles[i].exc, val |-> titles[i].obj]])
           [] k = "total" -> int_of(x, "number_of_results")
           [] k = "offset" -> int_of(x, "start_index")
           [] k = "limit" -> int_of(x, "results_per_page")

\* examples/netflix.py Flixject.update_from_tree: the decoder ring of the
\* class gives the value of each of its keys, the first callable that raises
\* ending the call; the dictionary of the values is installed with
\* update_from_dict and the instance returned.
update_from_tree(o, tree) ==
    LET keys == decoder_ring_keys(o.cls)
        ring == Collect([i \in DOMAIN keys |-> decoder_ring(o.cls, keys[i], tree)])
    IN IF ring.exc # NoError THEN Raise(o, ring.exc)
       ELSE [update_from_dict(o, DictBody([k \in {keys[i] : i \in DOMAIN keys} |->
                                              ring.val[CHOOSE i \in DOMAIN keys : keys[i] = k]]))
                EXCEPT !.val = "self"]

\* The body of a response that is an XML document, with its root element.
XmlBody(root) == [isdict |-> FALSE, isxml |-> TRUE, items |-> root]
IsXml(body) == "isxml" \in DOMAIN body

\* examples/netflix.py Flixject.update_from_response, which overrides that of
\* PromiseObject and does not call it: the response is validated, its body
\* parsed as a document and installed with update_from_tree.
Flixject_update_from_response(o, url, response) ==
    IF raise_for_response(o, url, response) # NoError
    THEN Raise(o, raise_for_response(o, url, response))
    ELSE IF ~IsXml(response.body) THEN Raise(o, ParseError)
    ELSE [update_from_tree(o, response.body.items) EXCEPT !.val = "None"]

\* self.update_from_response(url, response, content), by the class of self.
SelfUpdateFromResponse(o, url, response) ==
    IF o.cls \in FlixClasses THEN Flixject_update_from_response(o, url, response)
    ELSE IF o.cls \in TopClasses THEN top_update_from_response(o, url, response)
    ELSE update_from_response(o, url, response)

\* HttpObject.get_request: the request for the instance's location.
HttpObject_get_request(o) == [uri |-> o._location]

\* ---------------------------------------------------------------- delivery

\* deliver() without lines 71-72: an instance without a location is
\* requested all the same.
deliver_no_location_check(o, response) ==
    IF o._delivered THEN Raise(o, PromiseError)
    ELSE LET request == HttpObject_get_request(o)
         IN IF response.raises THEN Outcome(o, TransportError, 1, "None")
            ELSE AddSent(SelfUpdateFromResponse(o, request.uri, response), 1)

\* remoteobjects/promise.py PromiseObject.deliver; response is what the
\* transport does with the request.
deliver(o, response) ==
    IF o._delivered THEN Raise(o, PromiseError)
    ELSE IF o._location = NoneLoc THEN Raise(o, PromiseError)
    ELSE LET request == HttpObject_get_request(o)
         IN IF response.raises THEN Outcome(o, TransportError, 1, "None")
            ELSE AddSent(SelfUpdateFromResponse(o, request.uri, response), 1)

\* promise.py PromiseObject.deliver.
top_deliver(o, response) ==
    IF o._delivered THEN Raise(o, PromiseError)
    ELSE IF o._location = NoneLoc THEN Raise(o, PromiseError)
    ELSE IF response.raises THEN Outcome(o, TransportError, 1, "None")
    ELSE AddSent(top_update_from_response(o, o._location, response), 1)

\* self.deliver(), by the class of self.
SelfDeliver(o, response) ==
    IF o.cls \in DataObjectClasses THEN Raise(o, AttributeError)
    ELSE IF o.cls \in TopClasses THEN top_deliver(o, response)
    ELSE deliver(o, response)

\* ------------------------------------------------------------ reading data

\* remoteobjects/promise.py PromiseObject._get_api_data, the getter of the
\* api_data property: val tells whether the data could be read.
_get_api_data(o, response) ==
    IF ~o._delivered
    THEN CHOOSE ret \in
           {IF r.exc # NoError THEN r
            ELSE IF ~HasApiData(r.obj) THEN [r EXCEPT !.exc = KeyError]
            ELSE [r EXCEPT !.val = "api_data"] :
              r \in {deliver(o, response)}} : TRUE
    ELSE IF ~HasApiData(o) THEN Raise(o, KeyError)
    ELSE Return(o, "api_data")

\* remoteobjects/promise.py PromiseObject._set_api_data, the setter of the
\* property (obj.api_data = value): the value becomes the data, whatever it
\* is, and the field values stored on the instance stay.
_set_api_data(o, value) == Return([o EXCEPT !.api_data = value], "None")

\* remoteobjects/promise.py PromiseObject._del_api_data, the deleter of the
\* property (del obj.api_data): the instance has no data any more; a second
\* deletion finds none to delete.
_del_api_data(o) ==
    IF ~HasApiData(o) THEN Raise(o, KeyError)
    ELSE Return([o EXCEPT !.api_data = NoAttribute], "None")

\* obj.api_data, by the class of obj: the property of a promise class, a
\* plain attribute of a class declared on DataObject.
SelfApiData(o, response) ==
    IF o.cls \in DataObjectClasses THEN Return(o, "api_data")
    ELSE _get_api_data(o, response)

\* Field.__get__ on an instance of remoteobjects/promise.py: a value stored
\* on the instance is returned as it is; otherwise the field reads api_data,
\* decodes the value of its key and stores it on the instance; when the data
\* has no such key the field's default is returned, and nothing stored.
Field__get__(o, attr, response) ==
    IF attr \in DOMAIN o.dict THEN Return(o, o.dict[attr])
    ELSE CHOOSE ret \in
           {IF r.exc # NoError THEN r
            ELSE LET data == Deref(r.obj.api_data)
                 IN IF attr \in DOMAIN data
                    THEN [r EXCEPT !.val = FieldValue(data, attr),
                                   !.obj.dict = (attr :> FieldValue(data, attr)) @@ @]
                    ELSE [r EXCEPT !.val = fields(o.cls)[attr].default] :
              r \in {SelfApiData(o, response)}} : TRUE

\* Field.__set__: the value is stored on the instance.
Field__set__(o, attr, value) ==
    Return([o EXCEPT !.dict = (attr :> value) @@ @], "None")

\* Field.__delete__: the field is reset to its default.
Field__delete__(o, attr) ==
    Return([o EXCEPT !.dict = (attr :> fields(o.cls)[attr].default) @@ @], "None")

\* __getattr__ without the test of line 53: any missing attribute delivers.
top__getattr__any_name(o, attr, response) ==
    IF ~o._delivered
    THEN LET r == top_deliver(o, response)
         IN IF r.exc # NoError THEN r
            ELSE IF attr \in DOMAIN r.obj.dict
                 THEN [r EXCEPT !.val = r.obj.dict[attr]]
                 ELSE [r EXCEPT !.exc = AttributeError]
    ELSE Raise(o, AttributeError)

\* promise.py PromiseObject.__getattr__, called when the attribute is not
\* found on the instance.
top__getattr__(o, attr, response) ==
    IF attr \in Fields /\ ~o._delivered
    THEN LET r == top_deliver(o, response)
         IN IF r.exc # NoError THEN r
            ELSE IF attr \in DOMAIN r.obj.dict
                 THEN [r EXCEPT !.val = r.obj.dict[attr]]
                 ELSE [r EXCEPT !.exc = AttributeError]
    ELSE Raise(o, AttributeError)

\* Reading obj.attr: an attribute stored on the instance is found by the
\* normal lookup; a declared field of remoteobjects/promise.py is a
\* descriptor; a name that is neither raises AttributeError, through
\* __getattr__ in promise.py.
GetAttr(o, attr, response) ==
    IF o.cls \in TopClasses
    THEN (IF attr \in DOMAIN o.dict THEN Return(o, o.dict[attr])
          ELSE top__getattr__(o, attr, response))
    ELSE (IF attr \in DOMAIN fields(o.cls) THEN Field__get__(o, attr, response)
          ELSE Raise(o, AttributeError))

\* A copy that is not deep: the dictionaries nested in the data are shared
\* with the copy.
deepcopy_shallow(data) == [top |-> Deref(data), cells |-> EmptyDict]

\* copy.deepcopy of a dictionary: the copy, and the copies of the
\* dictionaries nested in it, each in a cell of its own.
deepcopy(data) ==
    LET top == Deref(data)
        nested == {k \in DOMAIN top : IsCell(top[k])}
    IN [top |-> [k \in DOMAIN top |-> IF k \in nested THEN "d." \o k ELSE top[k]],
        cells |-> [c \in {"d." \o k : k \in nested} |->
                     LET k == CHOOSE n \in nested : "d." \o n = c
                     IN heap.cells[top[k]]]]

\* The loop of to_dict over the declared fields: the value getattr gives for
\* each replaces the entry of the field's wire name in the copy (None when
\* it has none).  (v ranges over a one-element set: it is a value, computed
\* once.)
RECURSIVE to_dict_fields(_, _, _, _)
to_dict_fields(r, data, names, response) ==
    IF names = {} \/ r.exc # NoError THEN [r EXCEPT !.val = data]
    ELSE LET f == CHOOSE n \in names : TRUE
         IN CHOOSE ret \in
              {to_dict_fields(AddSent(v, r.sent), (f :> v.val) @@ data,
                              names \ {f}, response) :
                 v \in {Field__get__(r.obj, f, response)}} : TRUE

\* to_dict that exports the declared fields only.
to_dict_declared_only(o, response) ==
    LET r == SelfApiData(o, response)
    IN IF r.exc # NoError THEN r
       ELSE LET e == to_dict_fields(r, EmptyDict, DOMAIN fields(o.cls), response)
            IN IF e.exc # NoError THEN [e EXCEPT !.val = "None"]
               ELSE [e EXCEPT !.val =
                        [top |-> [k \in {n \in DOMAIN e.val : e.val[n] # "None"} |-> e.val[k]],
                         cells |-> EmptyDict]]

\* DataObject.to_dict, as the data tests pin it: a deep copy of the retained
\* data (test_spooky_action, lines 135-149), in which every declared field
\* has the value the instance gives for it, its default when it has no
\* other (test_field_default, lines 377-380), and no entry when that value
\* is None (test_must_ignore, lines 107-110).  val is the new dictionary and
\* the cells of the dictionaries nested in it.  (r, copy and e range over one-element sets:
\* each is a value, computed once.)
to_dict_copied(o, r, response) ==
    CHOOSE ret \in
      {IF e.exc # NoError THEN [e EXCEPT !.val = "None"]
       ELSE [e EXCEPT !.val =
                [top |-> [k \in {n \in DOMAIN e.val :
                                    n \notin DOMAIN fields(o.cls) \/ e.val[n] # "None"} |->
                            e.val[k]],
                 cells |-> copy.cells]] :
         copy \in {deepcopy(r.obj.api_data)},
         e \in {to_dict_fields(r, deepcopy(r.obj.api_data).top,
                               DOMAIN fields(o.cls), response)}} : TRUE

to_dict(o, response) ==
    CHOOSE ret \in
      {IF r.exc # NoError THEN r ELSE to_dict_copied(o, r, response) :
         r \in {SelfApiData(o, response)}} : TRUE

\* DataObject.from_dict: cls() filled with update_from_dict(data); the
\* instance is returned unless that raises.
from_dict(cls, data) ==
    LET r == SelfUpdateFromDict(New(cls), data)
    IN IF r.exc # NoError THEN r ELSE [r EXCEPT !.obj.via = "from_dict"]

\* --------------------------------------------------------------- filtering

\* The orders in which a dictionary with the given keys may hand them out:
\* the code builds the new query from plain dictionaries, whose iteration
\* order is the interpreter's and not the order of insertion.
DictOrders(keys) ==
    {s \in [1..Cardinality(keys) -> keys] :
        \A i, j \in DOMAIN s : i # j => s[i] # s[j]}

\* The keys of a dictionary in the order it iterates.
iterkeys(d, order) == SelectSeq(order, LAMBDA k : k \in DOMAIN d)

\* The keys of a query string.
QueryKeySet(query) == {query[i][1] : i \in DOMAIN query}

\* cgi.parse_qs(qs, keep_blank_values=True): every key of the query string
\* with the list of its unquoted values, in textual order.
parse_qs(query) ==
    [k \in QueryKeySet(query) |->
        LET ps == SelectSeq(query, LAMBDA p : p[1] = k)
        IN [i \in DOMAIN ps |-> unquote_plus(ps[i][2])]]

\* dict.update mistaken for a merge that keeps the values already present.
dict_update_keeps(d, other) ==
    [k \in DOMAIN d \cup DOMAIN other |-> IF k \in DOMAIN d THEN d[k] ELSE other[k]]

\* dict.update.
dict_update(d, other) ==
    [k \in DOMAIN d \cup DOMAIN other |-> IF k \in DOMAIN other THEN other[k] ELSE d[k]]

\* urllib.urlencode of a dictionary that iterates in the given order.
urlencode(d, order) ==
    LET keys == iterkeys(d, order)
    IN [i \in DOMAIN keys |-> <<keys[i], quote_plus(PyStr(d[keys[i]]))>>]

\* What filter() and __getitem__ do: the receiver afterwards, the exception
\* raised and the instance returned (None when it raises).
NoObj == [none |-> TRUE]
Derived(o, exc, new) == [obj |-> o, exc |-> exc, new |-> new, val |-> "None"]

\* The keyword arguments appended to the query string as it stands, instead
\* of merged into its parsed form.
FilterUrl_appends(location, kwargs, order) ==
    Url(location.base,
        location.query \o urlencode([k \in DOMAIN kwargs |-> kwargs[k]], order))

\* filter that takes the last value of every key of the query (v[-1]).
FilterUrl_last(location, kwargs, order) ==
    LET parsed == parse_qs(location.query)
        lasts == [k \in DOMAIN parsed |-> StrV(parsed[k][Len(parsed[k])])]
        queryargs == dict_update(lasts, kwargs)
    IN Url(location.base, urlencode(queryargs, order))

\* Lines 114-119 of filter (111-116 of ListObject.filter): the location is
\* parsed, the first value of every key of its query merged with kwargs,
\* and the URL put together again.
FilterUrl(location, kwargs, order) ==
    LET parsed == parse_qs(location.query)
        firsts == [k \in DOMAIN parsed |-> StrV(parsed[k][1])]
        queryargs == dict_update(firsts, kwargs)
    IN Url(location.base, urlencode(queryargs, order))

\* filter() that does not pass http=self._http on line 121.
filter_drops_http(o, kwargs, order) ==
    IF o._location = NoneLoc THEN Derived(o, AttributeError, NoObj)
    ELSE Derived(o, NoError,
                 get(o.cls, FilterUrl(o._location, kwargs, order), NoneHttp))

\* remoteobjects/promise.py PromiseObject.filter.  urlparse raises
\* AttributeError on a location that is None.
filter(o, kwargs, order) ==
    IF o._location = NoneLoc THEN Derived(o, AttributeError, NoObj)
    ELSE Derived(o, NoError,
                 get(o.cls, FilterUrl(o._location, kwargs, order), o._http))

\* promise.py ListObject.filter.
ListObject_filter(o, kwargs, order) ==
    IF o._location = NoneLoc THEN Derived(o, AttributeError, NoObj)
    ELSE Derived(o, NoError,
                 top_get(o.cls, FilterUrl(o._location, kwargs, order), o._http))

\* The classes that have filter(): PromiseObject of remoteobjects/promise.py
\* and the classes derived from it, and ListObject of promise.py.
Filterable == {PromiseObject, ListObject, Title, Catalog, Room, Toy}

\* self.filter(**kwargs), by the class of self.
SelfFilter(o, kwargs, order) ==
    IF o.cls = ListObject THEN ListObject_filter(o, kwargs, order)
    ELSE filter(o, kwargs, order)

\* Subscript keys: a slice start:stop, or a single index.
Slice(start, stop) == [start |-> start, stop |-> stop]
Index(n) == [index |-> n]
IsSlice(key) == "start" \in DOMAIN key

\* The keyword arguments __getitem__ passes to filter for a slice.
SliceKwargs(key) ==
    ("offset" :> IntV(key.start)) @@ ("limit" :> IntV(key.stop - key.start))

\* __getitem__ that takes a single index n for the slice n:n+1.
ListObject__getitem__index_as_slice(o, key, order) ==
    IF IsSlice(key) THEN ListObject_filter(o, SliceKwargs(key), order)
    ELSE ListObject_filter(o, ("offset" :> IntV(key.index))
                              @@ ("limit" :> IntV(1)), order)

\* __getitem__ that passes limit=key.stop on line 125.
ListObject__getitem__limit_stop(o, key, order) ==
    IF IsSlice(key)
    THEN ListObject_filter(o, ("offset" :> IntV(key.start))
                              @@ ("limit" :> IntV(key.stop)), order)
    ELSE Derived(o, TypeError, NoObj)

\* The underlying value of a list-like instance is indexable by ordinal
\* when the data delivered to it holds a sequence of elements; the bodies of
\* list resources hold theirs under "entries".  The data of an instance
\* that was not delivered holds none.
Indexable(o) == "entries" \in DOMAIN Deref(o.api_data)

\* The decoded element sequence of a list-like instance: the elements of
\* its data, each decoded by a plain field.
Elements(o) ==
    IF Indexable(o)
    THEN LET raw == Deref(o.api_data)["entries"]
         IN [i \in DOMAIN raw |-> FieldValue(raw, i)]
    ELSE <<>>

\* The outcome of an access by ordinal index: the element returned, or the
\* exception raised.
Indexed(o, exc, val) == [obj |-> o, exc |-> exc, new |-> NoObj, val |-> val]

\* The bound method the lookup of __getitem__ gives.
BoundGetItem == "<bound method __getitem__>"

\* super(ListObject, self).__getitem__, line 128: the lookup among the
\* classes after ListObject (PromiseObject, HttpObject, DataObject) gives
\* their accessor by ordinal when the underlying value is indexable by
\* ordinal, and raises AttributeError when it is not.
super__getitem__(o) == IF Indexable(o) THEN BoundGetItem ELSE AttributeError

\* getitem(key), line 133, the accessor of the base classes: the element at
\* the index in the decoded element sequence; an index past its end raises
\* IndexError, as a sequence does.
getitem(o, key) ==
    IF key.index < Len(Elements(o))
    THEN Indexed(o, NoError, Elements(o)[key.index + 1])
    ELSE Indexed(o, IndexError, "None")

\* promise.py ListObject.__getitem__: a slice becomes a filter; any other
\* key is handed to the __getitem__ of the base classes, and raises
\* TypeError when the lookup of that fails.
ListObject__getitem__(o, key, order) ==
    IF IsSlice(key) THEN ListObject_filter(o, SliceKwargs(key), order)
    ELSE IF super__getitem__(o) = AttributeError
    THEN Derived(o, TypeError, NoObj)
    ELSE getitem(o, key)

\* ------------------------------------------------------------------ inputs

Foo == "http://example.com/foo"
Whahay == "http://example.com/whahay"

\* The locations a caller passes to get().
Urls ==
    {NoneLoc,
     Url(Whahay, <<>>),
     Url(Foo, << <<"offset", "7">> >>)}

\* The keyword arguments a caller passes to filter().
Kwargs == {("awesome" :> StrV("yes"))}

\* The data a caller passes to update_from_dict().
Datas == Bodies

\* The attribute names a caller reads: the declared fields and a name that
\* is neither a declared field nor an attribute of the instance.
AttrNames == Fields \cup {"secret"}

\* The locations, keyword arguments and subscript keys of the filter
\* compositions: queries with keys in and against the interpreter's order,
\* with a repeated key, with a value that needs quoting.
FilterUrls ==
    {Url(Foo, <<>>),
     Url(Foo, << <<"offset", "7">>, <<"limit", "10">> >>),
     Url(Whahay, << <<"awesome", "so+so">>, <<"awesome", "no">> >>)}

FilterKwargs ==
    {EmptyDict,
     ("awesome" :> StrV("yes")),
     ("awesome" :> StrV("so so")),
     ("limit" :> IntV(10)) @@ ("offset" :> IntV(7))}

Keys == {Slice(0, 5), Slice(1, 0), Index(0), Index(1), Index(2)}

\* A mapping the caller builds: its entries that are texts, and the
\* dictionaries nested in it, by key.
Mapping(top, nested) == [top |-> top, nested |-> nested]

\* The classes the data tests derive from the class under test.
DataClasses == {PromiseObject, WithDefaults}

\* The mappings the tests hand to from_dict() and update_from_dict() of each
\* class.
Mappings(cls) ==
    IF cls = WithDefaults
    THEN {Mapping(EmptyDict, EmptyDict),
          Mapping(("plain" :> "awesome") @@ ("itsAlwaysSomething" :> "haptics")
                     @@ ("itsUsuallySomething" :> "omg hi"),
                  EmptyDict)}
    ELSE {Mapping(("name" :> "foo"), ("secret" :> ("code" :> "uuddlrlrba"))),
          Mapping(("name" :> "foo") @@ ("secret" :> "codes"), EmptyDict),
          Mapping(("secret" :> "codes"), EmptyDict)}

\* The attributes the data tests read, assign and delete.
DataAttrNames == {"name", "plain", "itsAlwaysSomething", "itsUsuallySomething", "secret"}

\* What the transport would do if an instance built from a mapping asked it.
DataResponses == {TransportRaises, Response(200, "application/json", DictBody(Mollifred))}

\* The fields the tests assign to and delete.
Assigned == {"name", "plain"}

\* What the caller writes into a mapping he holds: initial['name'] = 'bar',
\* d['name'] = 'baz', and into the dictionary nested in it:
\* initial['secret']['code'] = 'steak', d['secret']['code'] = 'walt sent me'.
Items == {<<"initial", "name">>, <<"d", "name">>}
ItemValue(who, key) ==
    IF who = "initial" THEN "bar" ELSE "baz"
NestedValue(who) == IF who = "initial" THEN "steak" ELSE "walt sent me"

\* ------------------------------------------------------------------ links

\* fields.Link(cls): a related resource of class cls, at the location of the
\* owner joined with the name of the attribute.
Link(cls) == [kind |-> "Link", cls |-> cls]

\* The links the classes declare.
links(cls) == IF cls = Room THEN ("toybox" :> Link(Toy)) ELSE EmptyDict

Bwuh == "http://example.com/bwuh/"

\* The locations a caller passes to Room.get().
LinkUrls ==
    {Url(Bwuh, <<>>),
     Url(Bwuh, << <<"offset", "7">> >>),
     Url(Foo, <<>>)}

\* A URL up to and including the last "/" of its path.
urldir(base) ==
    IF base = Bwuh THEN "http://example.com/bwuh/" ELSE "http://example.com/"

\* urlparse.urljoin(location, name), name a relative path of one segment:
\* name replaces what follows the last "/" of the path, and the query.
urljoin(location, name) == Url(urldir(location.base) \o name, <<>>)

\* Link.__get__ on an instance o, for the attribute attr: the class of the
\* link, got at the joined location.  http is the transport the new
\* instance is given.
Link__get__(o, attr, http) ==
    Derived(o, NoError, get(links(o.cls)[attr].cls, urljoin(o._location, attr), http))

\* ------------------------------------------------------------- references

\* The classes of test_self_reference and test_post_reference: those of the
\* module tests.extra_dataobject, and those the test derives from them.
Reflexive == "Reflexive"
Referencive == "tests.extra_dataobject.Referencive"
Related == "tests.extra_dataobject.Related"
OtherRelated == "tests.extra_dataobject.OtherRelated"
test_Related == "Related"
NotRelated == "NotRelated"

RefClasses == {Reflexive, Referencive, Related, OtherRelated, test_Related, NotRelated}

\* cls.__name__.
ClassName(cls) ==
    IF cls \in {Related, test_Related} THEN "Related"
    ELSE IF cls = Referencive THEN "Referencive"
    ELSE IF cls = OtherRelated THEN "OtherRelated"
    ELSE cls

\* The classes a class statement names as bases, which exist before it runs.
Bases(cls) ==
    IF cls = test_Related THEN {Related}
    ELSE IF cls = NotRelated THEN {OtherRelated}
    ELSE {}

\* fields.Object(name): a field that holds an instance of the class of that
\* name, decoded from the dictionary nested under the attribute's name.
Object(name) == [kind |-> "Object", cls |-> name]

\* The references the classes declare.
references(cls) ==
    IF cls = Reflexive THEN ("itself" :> Object("Reflexive"))
    ELSE IF cls = Referencive
         THEN ("related" :> Object("Related")) @@ ("other" :> Object("OtherRelated"))
         ELSE EmptyDict

\* A registry in which the first class declared with a name keeps the name.
register_first(registry, cls) ==
    registry @@ (ClassName(cls) :> cls)

\* The metaclass of the data objects, at the end of a class statement: the
\* class is entered in the registry under its name.
register(registry, cls) ==
    (ClassName(cls) :> cls) @@ registry

\* find_by_name(name): the class the registry has for the name.
find_by_name(name) == classes_by_name[name]

\* Object.__get__ on an instance o, for the attribute attr: the instance
\* stored for attr, or else the class the field names, looked up now, built
\* from the dictionary the data has for attr and stored.
Object__get__(o, attr) ==
    IF attr \in DOMAIN o.dict THEN Derived(o, NoError, o.dict[attr])
    ELSE LET data == Deref(o.api_data)
             r == from_dict(find_by_name(references(o.cls)[attr].cls),
                            ByRef(data[attr], heap.cells))
         IN IF attr \notin DOMAIN data THEN Derived(o, NoError, NoObj)
            ELSE IF r.exc # NoError THEN Derived(o, r.exc, NoObj)
            ELSE Derived([o EXCEPT !.dict = (attr :> r.obj) @@ @], NoError, r.obj)

\* The mappings the tests build instances with references from.
RefMappings(cls) ==
    IF cls = Reflexive THEN {Mapping(EmptyDict, ("itself" :> EmptyDict))}
    ELSE {Mapping(EmptyDict, ("related" :> EmptyDict) @@ ("other" :> EmptyDict))}

\* ----------------------------------------------------------- state machine

\* The state: obj is the instance the caller works with (None before it has
\* one), requests counts the transport requests issued so far, and result is
\* the last call.  The caller holds one instance at a time; instances do not
\* share state, so every instance the program can build is built here.
\* depth counts the filters that led from the instance get() returned to obj,
\* and failed tells whether a delivery of obj has failed.  hashseed is the
\* seed the interpreter of the process hashes strings with.  heap holds the
\* dictionaries the caller shares with obj.  classes_by_name is the registry
\* of the data object classes, by name, and declared the classes whose
\* class statement has run, in the order in which they ran.

\* The last call: the operation, its arguments, the exception it raised, the
\* value it returned and the instance it returned (None when it returned
\* none).
Call(op, arg, exc, val, ret) ==
    [op |-> op, arg |-> arg, exc |-> exc, val |-> val, ret |-> ret]

NoArg == [none |-> TRUE]

\* The exceptions with which a delivery that reached the transport fails:
\* those of the transport and of the validation of the response, and, for
\* the classes of the Netflix example, those of the parser and of the
\* callables of the decoder ring.
DeliveryFailures ==
    {TransportError, ResponseError, ContentTypeError, TypeError, ParseError,
     IndexError, AttributeError, ValueError}

\* The outcome r of a call on an instance is that of a delivery that failed:
\* a request was sent, and the call raised one of these and left the
\* instance undelivered.
DeliveryFailed(r) ==
    r.sent > 0 /\ r.exc \in DeliveryFailures /\ ~r.obj._delivered

\* The threads that work on one instance, and where each of them is in the
\* call it makes: pc is the point it has reached, op the call, response what
\* the transport answered its request with.
Threads == {"t1", "t2"}

Thread(pc, op, response) == [pc |-> pc, op |-> op, response |-> response]

Idle == Thread("idle", "None", TransportRaises)

NoThreads == [t \in Threads |-> Idle]

\* The state before any instance exists, in a process started with hash
\* seed 0.  The seed decides only the order in which the decoder rings of
\* the Netflix example are iterated; the specifications that deliver
\* instances of that example start from InitFlix, with any of the seeds.
Init ==
    /\ obj = NoObj
    /\ requests = 0
    /\ depth = 0
    /\ failed = FALSE
    /\ heap = EmptyHeap
    /\ classes_by_name = EmptyDict
    /\ declared = <<>>
    /\ threads = NoThreads
    /\ hashseed = 0
    /\ result = Call("start", NoArg, NoError, "None", NoObj)

HasObj == obj # NoObj

\* The heap places a newly built instance where no live instance is.
Place(inst) ==
    IF inst = NoObj \/ inst.id # 0 THEN inst
    ELSE [inst EXCEPT !.id = IF HasObj /\ obj.id = 1 THEN 2 ELSE 1]

\* t = cls(): a caller constructs an instance directly and works with it.
Construct(cls) ==
    /\ obj' = Place(New(cls))
    /\ result' = Call("__init__", [cls |-> cls], NoError, "None", obj')
    /\ depth' = 0
    /\ failed' = FALSE
    /\ UNCHANGED <<requests, heap, classes_by_name, declared, threads, hashseed>>

\* t = cls.get(url, http).
Get(cls, url, http) ==
    /\ obj' = Place(ClsGet(cls, url, http))
    /\ result' = Call("get", [cls |-> cls, url |-> url, http |-> http],
                       NoError, "None", obj')
    /\ depth' = 0
    /\ failed' = FALSE
    /\ UNCHANGED <<requests, heap, classes_by_name, declared, threads, hashseed>>

\* A call on obj with outcome r.
Apply(op, arg, r) ==
    /\ requests + r.sent <= MaxRequests
    /\ obj' = r.obj
    /\ requests' = requests + r.sent
    /\ result' = Call(op, arg, r.exc, r.val, NoObj)
    /\ failed' = (failed \/ DeliveryFailed(r))
    /\ UNCHANGED <<depth, heap, classes_by_name, declared, threads, hashseed>>

\* obj.deliver().
Deliver(response) ==
    /\ HasObj
    /\ Apply("deliver", NoArg, SelfDeliver(obj, response))

\* The read of obj.attr does not decode data that is no dictionary: a field
\* stored on the instance, a name that is no field and a read that delivers
\* first do not.
ReadsNoList(o, attr) ==
    ~(/\ IsPromise(o)
      /\ o._delivered
      /\ ~IsDict(o.api_data)
      /\ attr \notin DOMAIN o.dict
      /\ attr \in DOMAIN fields(o.cls))

\* obj.attr is read.  (What a field makes of data that is a list is up to
\* fields.py; the read of such data is left out.)
ReadAttr(attr, response) ==
    /\ HasObj
    /\ ReadsNoList(obj, attr)
    /\ Apply("getattr", [attr |-> attr], GetAttr(obj, attr, response))

\* The classes whose api_data is the property of remoteobjects/promise.py.
HasProperty(o) == IsPromise(o) /\ o.cls \notin TopClasses

\* obj.api_data = value, with the value of a body.
SetApiData(data) ==
    /\ HasObj
    /\ HasProperty(obj)
    /\ Apply("set_api_data", [data |-> data], _set_api_data(obj, data.items))

\* del obj.api_data.
DelApiData ==
    /\ HasObj
    /\ HasProperty(obj)
    /\ Apply("del_api_data", NoArg, _del_api_data(obj))

\* obj.update_from_dict(data).
UpdateFromDict(data) ==
    /\ HasObj
    /\ Apply("update_from_dict", [data |-> data], SelfUpdateFromDict(obj, data))

\* A call on obj that returns an instance (or raises).
Derive(op, arg, d) ==
    /\ obj' = d.obj
    /\ result' = Call(op, arg, d.exc, d.val, Place(d.new))
    /\ UNCHANGED <<requests, depth, failed, heap, classes_by_name, declared, threads, hashseed>>

\* The orders in which the dictionary filter() builds may iterate.
FilterOrders(o, kwargs) ==
    DictOrders((IF IsUrl(o._location) THEN QueryKeySet(o._location.query) ELSE {})
               \cup DOMAIN kwargs)

\* x = obj.filter(**kwargs).
Filter(kwargs) ==
    /\ HasObj
    /\ obj.cls \in Filterable
    /\ \E order \in FilterOrders(obj, kwargs) :
          Derive("filter", [kwargs |-> kwargs], SelfFilter(obj, kwargs, order))

\* x = obj[key].
GetItem(key) ==
    /\ HasObj
    /\ obj.cls = ListObject
    /\ \E order \in FilterOrders(obj, IF IsSlice(key) THEN SliceKwargs(key) ELSE EmptyDict) :
          Derive("__getitem__", [key |-> key], ListObject__getitem__(obj, key, order))

\* The caller goes on with the instance filter() or a slice returned
\* (y = y.filter(awesome='no')).
Rebind ==
    /\ result.op \in {"filter", "__getitem__"}
    /\ result.ret # NoObj
    /\ depth < MaxDepth
    /\ obj' = result.ret
    /\ depth' = depth + 1
    /\ failed' = FALSE
    /\ result' = Call("rebind", NoArg, NoError, "None", NoObj)
    /\ UNCHANGED <<requests, heap, classes_by_name, declared, threads, hashseed>>

\* The cells of a mapping the caller builds in the cell named slot.
Alloc(slot, m) ==
    (slot :> (m.top @@ [k \in DOMAIN m.nested |-> slot \o "." \o k]))
    @@ [c \in {slot \o "." \o k : k \in DOMAIN m.nested} |->
           LET k == CHOOSE n \in DOMAIN m.nested : slot \o "." \o n = c
           IN m.nested[k]]

\* The cells reachable from the cells named: their own and those of the
\* dictionaries nested in them.
Reach(cells, names) ==
    LET tops == names \cap DOMAIN cells
    IN tops \cup {c \in DOMAIN cells :
                     \E t \in tops : \E k \in DOMAIN cells[t] : cells[t][k] = c}

\* The cells of the heap h that the instance o or the caller still refers to.
Live(o, h) ==
    LET roots == {h.initial, h.d}
                    \cup (IF o # NoObj /\ IsRef(o.api_data) THEN {o.api_data["@"]} ELSE {})
        live == Reach(h.cells, roots)
    IN [h EXCEPT !.cells = [c \in live |-> h.cells[c]]]

\* The cell a new mapping is built in: one the instance does not refer to.
Slot == IF HasObj /\ obj.api_data = Ref("m1") THEN "m2" ELSE "m1"

\* initial = {...}; x = cls.from_dict(initial).
FromDict(cls, m) ==
    LET r == from_dict(cls, ByRef(Slot, Alloc(Slot, m)))
    IN /\ r.exc = NoError
       /\ obj' = Place(r.obj)
       /\ heap' = Live(obj', Heap(Alloc(Slot, m) @@ heap.cells, Slot, "None", {}))
       /\ result' = Call("from_dict", [cls |-> cls, data |-> m], r.exc, "None", obj')
       /\ depth' = 0
       /\ failed' = FALSE
       /\ UNCHANGED <<requests, classes_by_name, declared, threads, hashseed>>

\* initial = {...}; obj.update_from_dict(initial).
UpdateFromMapping(m) ==
    LET r == SelfUpdateFromDict(obj, ByRef(Slot, Alloc(Slot, m)))
    IN /\ HasObj
       /\ m \in Mappings(obj.cls)
       /\ obj' = r.obj
       /\ heap' = Live(obj', [heap EXCEPT !.cells = Alloc(Slot, m) @@ @,
                                          !.initial = Slot, !.assigned = {}])
       /\ result' = Call("update_from_dict", [data |-> m], r.exc, r.val, NoObj)
       /\ UNCHANGED <<requests, depth, failed, classes_by_name, declared, threads, hashseed>>

\* obj.attr = value, attr a declared field.
SetAttr(attr, value) ==
    LET r == Field__set__(obj, attr, value)
    IN /\ HasObj
       /\ attr \in DOMAIN fields(obj.cls)
       /\ obj' = r.obj
       /\ heap' = [heap EXCEPT !.assigned = @ \cup {attr}]
       /\ result' = Call("setattr", [attr |-> attr, value |-> value], r.exc, r.val, NoObj)
       /\ UNCHANGED <<requests, depth, failed, classes_by_name, declared, threads, hashseed>>

\* del obj.attr, attr a declared field.
DelAttr(attr) ==
    /\ HasObj
    /\ attr \in DOMAIN fields(obj.cls)
    /\ Apply("delattr", [attr |-> attr], Field__delete__(obj, attr))

\* d = obj.to_dict(): the caller holds the mapping returned as d.
ToDict(response) ==
    /\ HasObj
    /\ \E r \in {to_dict(obj, response)} :
       /\ requests + r.sent <= MaxRequests
       /\ obj' = r.obj
       /\ requests' = requests + r.sent
       /\ heap' = IF r.exc # NoError THEN heap
                  ELSE Live(obj', [heap EXCEPT !.cells = r.val.cells @@ ("d" :> r.val.top) @@ @,
                                               !.d = "d"])
       /\ result' = Call("to_dict", NoArg, r.exc,
                          IF r.exc # NoError THEN "None" ELSE "d", NoObj)
       /\ failed' = (failed \/ DeliveryFailed(r))
       /\ UNCHANGED <<depth, classes_by_name, declared, threads, hashseed>>

\* who[key] = value, on a mapping the caller holds.
SetItem(who, key) ==
    /\ heap[who] # "None"
    /\ heap' = [heap EXCEPT !.cells[heap[who]] = (key :> ItemValue(who, key)) @@ @]
    /\ result' = Call("setitem", [who |-> who, key |-> key], NoError, "None", NoObj)
    /\ UNCHANGED <<obj, requests, depth, failed, classes_by_name, declared, threads, hashseed>>

\* who['secret']['code'] = value, on a mapping the caller holds.
SetNested(who) ==
    /\ heap[who] # "None"
    /\ "secret" \in DOMAIN heap.cells[heap[who]]
    /\ IsCell(heap.cells[heap[who]]["secret"])
    /\ heap' = [heap EXCEPT !.cells[heap.cells[heap[who]]["secret"]] =
                                ("code" :> NestedValue(who)) @@ @]
    /\ result' = Call("setnested", [who |-> who], NoError, "None", NoObj)
    /\ UNCHANGED <<obj, requests, depth, failed, classes_by_name, declared, threads, hashseed>>

\* The life of a promise object.
Next ==
    \/ \E cls \in Classes : Construct(cls)
    \/ \E cls \in Classes, url \in Urls, http \in Https : Get(cls, url, http)
    \/ \E response \in Responses : Deliver(response)
    \/ \E attr \in AttrNames, response \in Responses : ReadAttr(attr, response)
    \/ \E data \in Datas : UpdateFromDict(data)
    \/ \E data \in Datas : SetApiData(data)
    \/ DelApiData
    \/ \E kwargs \in Kwargs : Filter(kwargs)
    \/ \E key \in Keys : GetItem(key)
    \/ Rebind

Spec == Init /\ [][Next]_vars

\* Filter composition: an instance obtained with get() at any of the filter
\* locations is filtered and sliced, and the results filtered again.
InitFilter ==
    /\ \E cls \in Filterable, url \in FilterUrls, http \in Https :
          obj = [ClsGet(cls, url, http) EXCEPT !.id = 1]
    /\ requests = 0
    /\ depth = 0
    /\ failed = FALSE
    /\ heap = EmptyHeap
    /\ classes_by_name = EmptyDict
    /\ declared = <<>>
    /\ threads = NoThreads
    /\ hashseed = 0
    /\ result = Call("start", NoArg, NoError, "None", NoObj)

NextFilter ==
    \/ \E kwargs \in FilterKwargs : Filter(kwargs)
    \/ \E key \in Keys : GetItem(key)
    \/ Rebind

SpecFilter == InitFilter /\ [][NextFilter]_vars

\* Data objects: an instance built from a mapping is read, assigned, deleted
\* from, updated and exported, while the caller writes into the mapping he
\* built it from and into the mapping he got out of it.
NextData ==
    \/ \E cls \in DataClasses : \E m \in Mappings(cls) : FromDict(cls, m)
    \/ \E cls \in DataClasses : \E m \in Mappings(cls) : UpdateFromMapping(m)
    \/ UpdateFromDict(NonDictBody)
    \/ \E attr \in DataAttrNames, response \in DataResponses : ReadAttr(attr, response)
    \/ \E attr \in Assigned : SetAttr(attr, "hi")
    \/ \E attr \in Assigned : DelAttr(attr)
    \/ \E response \in DataResponses : ToDict(response)
    \/ \E item \in Items : SetItem(item[1], item[2])
    \/ \E who \in {"initial", "d"} : SetNested(who)

SpecData == Init /\ [][NextData]_vars

\* b = obj.attr, attr a link of a located obj.  The new instance has no
\* transport of its own, or that of obj.
ReadLink(attr) ==
    /\ HasObj
    /\ attr \in DOMAIN links(obj.cls)
    /\ IsUrl(obj._location)
    /\ \E http \in {NoneHttp, obj._http} :
          Derive("getattr", [attr |-> attr], Link__get__(obj, attr, http))

\* The caller goes on with the instance the link gave.
Follow ==
    /\ result.op = "getattr"
    /\ result.ret # NoObj
    /\ obj' = result.ret
    /\ failed' = FALSE
    /\ result' = Call("follow", NoArg, NoError, "None", NoObj)
    /\ UNCHANGED <<requests, depth, heap, classes_by_name, declared, threads, hashseed>>

\* Links: a Room is got, delivered or not, its toybox is read, and the Toy
\* is read in turn.
NextLink ==
    \/ \E url \in LinkUrls, http \in Https : Get(Room, url, http)
    \/ \E response \in Responses : Deliver(response)
    \/ \E attr \in AttrNames, response \in Responses : ReadAttr(attr, response)
    \/ \E attr \in {"toybox"} : ReadLink(attr)
    \/ Follow

SpecLink == Init /\ [][NextLink]_vars

\* The Netflix example: the catalog resource do_search asks, the documents
\* the service answers with (by the keys of the decoder rings) and the
\* responses of the transport.
Titles == "http://api.netflix.com/catalog/titles"

\* An element that holds a text only.
Leaf(text) == Element(text, EmptyDict, EmptyDict)

\* A catalog_title element, and one that has no alternate link.
TitleTree(name, rel) ==
    Element("None", EmptyDict,
            ("id" :> <<Leaf("http://api.netflix.com/catalog/titles/movies/" \o name)>>)
            @@ ("title" :> <<Element("None", ("regular" :> name), EmptyDict)>>)
            @@ ("link" :> <<Element("None", ("rel" :> rel)
                                            @@ ("href" :> "http://www.netflix.com/Movie/" \o name),
                                    EmptyDict)>>)
            @@ ("box_art" :> <<Element("None", ("large" :> "http://cdn.netflix.com/" \o name),
                                       EmptyDict)>>))

\* A catalog document with the given titles.
CatalogTree(titles) ==
    Element("None", EmptyDict,
            (IF titles = <<>> THEN EmptyDict ELSE ("catalog_title" :> titles))
            @@ ("number_of_results" :> <<Leaf(NatStr(Len(titles)))>>)
            @@ ("start_index" :> <<Leaf("0")>>)
            @@ ("results_per_page" :> <<Leaf("25")>>))

SearchDoc == CatalogTree(<<TitleTree("Brazil", "alternate"), TitleTree("Matrix", "alternate")>>)
EmptyDoc == CatalogTree(<<>>)
BrokenDoc == CatalogTree(<<TitleTree("Brazil", "synopsis")>>)
TitleDoc == TitleTree("Brazil", "alternate")

FlixResponses ==
    {TransportRaises,
     Response(404, "text/xml", XmlBody(SearchDoc)),
     Response(200, "application/json", DictBody(Mollifred)),
     Response(200, "text/xml", NonDictBody),
     Response(200, "text/xml", XmlBody(SearchDoc)),
     Response(200, "application/xml", XmlBody(EmptyDoc)),
     Response(200, "text/xml", XmlBody(BrokenDoc)),
     Response(200, "application/xml", XmlBody(TitleDoc))}

FlixAttrNames == {"results", "total", "title", "secret"}

Queries == {"brazil", "the matrix"}

\* Lines 112 and 120 of do_search: the title of every result is read, which
\* stores it on that Title; the Titles the data holds and those stored as the
\* value of results are the same instances.
print_titles(search) ==
    LET read == [i \in DOMAIN search.dict["results"] |->
                    Field__get__(search.dict["results"][i], "title", TransportRaises).obj]
    IN [search EXCEPT !.dict["results"] = read, !.api_data["results"] = read]

\* do_search(opts, args), query the words of args: the catalog is filtered
\* and delivered, and its results are read and their titles printed; the
\* first read of results is the one that can send a request.  The call
\* returns 0.  (delivered and results range over one-element sets: each is a
\* value, computed once.)
do_search(query, response, again) ==
    CHOOSE ret \in
      {IF delivered.exc # NoError THEN delivered
       ELSE CHOOSE read \in
              {IF results.exc # NoError THEN results
               ELSE [results EXCEPT !.val = 0, !.obj = print_titles(results.obj)] :
                 results \in {AddSent(GetAttr(delivered.obj, "results", again),
                                      delivered.sent)}} : TRUE :
         delivered \in {SelfDeliver(filter(get(Catalog, Url(Titles, <<>>), NoneHttp),
                                           ("term" :> StrV(query)), <<"term">>).new,
                                    response)}} : TRUE

\* do_search(opts, args) is called; obj is its search afterwards, which came
\* out of one filter().
DoSearch(query, response, again) ==
    \E r \in {do_search(query, response, again)} :
       /\ requests + r.sent <= MaxRequests
       /\ obj' = Place(r.obj)
       /\ requests' = requests + r.sent
       /\ result' = Call("do_search", [query |-> query], r.exc, r.val, NoObj)
       /\ depth' = 1
       /\ failed' = DeliveryFailed(r)
       /\ UNCHANGED <<heap, classes_by_name, declared, threads, hashseed>>

\* The keyword arguments the example filters with.
FlixKwargs == {("term" :> StrV(q)) : q \in Queries}

\* The data a caller installs in an instance of the example.
FlixDatas == {DictBody(("results" :> <<>>) @@ ("title" :> "Brazil")), NonDictBody}

NextFlix ==
    \/ \E cls \in FlixClasses : Construct(cls)
    \/ \E cls \in FlixClasses, http \in Https : Get(cls, Url(Titles, <<>>), http)
    \/ \E query \in Queries, response \in FlixResponses, again \in FlixResponses :
          DoSearch(query, response, again)
    \/ \E response \in FlixResponses : Deliver(response)
    \/ \E attr \in FlixAttrNames, response \in FlixResponses : ReadAttr(attr, response)
    \/ \E data \in FlixDatas : UpdateFromDict(data)
    \/ \E kwargs \in FlixKwargs : Filter(kwargs)
    \/ Rebind

\* The example runs in a process started with any of the seeds.
InitFlix ==
    /\ obj = NoObj
    /\ requests = 0
    /\ depth = 0
    /\ failed = FALSE
    /\ heap = EmptyHeap
    /\ classes_by_name = EmptyDict
    /\ declared = <<>>
    /\ threads = NoThreads
    /\ hashseed \in HashSeeds
    /\ result = Call("start", NoArg, NoError, "None", NoObj)

SpecFlix == InitFlix /\ [][NextFlix]_vars

\* class cls(...): a class statement runs, after those of its bases.
Declare(cls) ==
    /\ \A i \in 1..Len(declared) : declared[i] # cls
    /\ \A b \in Bases(cls) : \E i \in 1..Len(declared) : declared[i] = b
    /\ classes_by_name' = register(classes_by_name, cls)
    /\ declared' = Append(declared, cls)
    /\ result' = Call("class", [cls |-> cls], NoError, "None", NoObj)
    /\ UNCHANGED <<obj, requests, depth, failed, heap, threads, hashseed>>

\* x = obj.attr, attr a reference whose class has been declared.
ReadRef(attr) ==
    /\ HasObj
    /\ attr \in DOMAIN references(obj.cls)
    /\ references(obj.cls)[attr].cls \in DOMAIN classes_by_name
    /\ LET d == Object__get__(obj, attr)
       IN /\ obj' = d.obj
          /\ result' = Call("getattr", [attr |-> attr], d.exc, "None", d.new)
    /\ UNCHANGED <<requests, depth, failed, heap, classes_by_name, declared, threads, hashseed>>

\* References: the classes are declared in any order their bases allow,
\* instances of the declared ones are built and their references read.
NextRef ==
    \/ \E cls \in RefClasses : Declare(cls)
    \/ \E cls \in RefClasses : \E m \in RefMappings(cls) :
          (\E i \in 1..Len(declared) : declared[i] = cls) /\ FromDict(cls, m)
    \/ \E attr \in {"itself", "related", "other"} : ReadRef(attr)

SpecRef == Init /\ [][NextRef]_vars

\* obj.update_from_response(url, response, content), called by the caller.
UpdateFromResponse(response) ==
    /\ HasObj
    /\ ~response.raises
    /\ Apply("update_from_response", [response |-> response],
             SelfUpdateFromResponse(obj, obj._location, response))

\* What the resource of obj answers a request with, and the names a caller
\* reads on obj: those of the Netflix example for its classes, those of the
\* promise tests for the others.
FlagResponses == IF HasObj /\ obj.cls \in FlixClasses THEN FlixResponses ELSE Responses
FlagAttrNames == IF HasObj /\ obj.cls \in FlixClasses THEN FlixAttrNames ELSE AttrNames

\* The calls that can change the delivered flag, on instances of every
\* promise class, constructed or obtained with get(), in a process started
\* with any of the seeds.
NextFlag ==
    \/ \E cls \in Classes \cup FlixClasses : Construct(cls)
    \/ \E cls \in Classes \cup FlixClasses, url \in Urls, http \in Https : Get(cls, url, http)
    \/ \E response \in FlagResponses : Deliver(response)
    \/ \E attr \in FlagAttrNames, response \in FlagResponses : ReadAttr(attr, response)
    \/ \E data \in Datas : UpdateFromDict(data)
    \/ \E response \in FlagResponses : UpdateFromResponse(response)
    \/ \E data \in Datas : SetApiData(data)
    \/ DelApiData
    \/ \E kwargs \in Kwargs : Filter(kwargs)

SpecFlag == InitFlix /\ [][NextFlag]_vars

\* Pickling.  The state of an instance is made of the attributes its class
\* names as state fields and of the field values stored on the instance.
\* DataObject names api_data, HttpObject adds _location.
HttpObject_statefields == {"api_data", "_location"}

\* statefields that leaves the delivered flag out of the state.
statefields_without_delivered(cls) == HttpObject_statefields

\* remoteobjects/promise.py PromiseObject.statefields.
statefields(cls) == HttpObject_statefields \cup {"_delivered"}

\* The attributes of an instance, by name.
InstanceDict(o) ==
    ("api_data" :> o.api_data) @@ ("_location" :> o._location)
        @@ ("_delivered" :> o._delivered) @@ ("_http" :> o._http)

\* pickle.dumps(o): the class, the state fields and the stored field values;
\* the attributes are taken from the instance as they are, api_data too,
\* without its getter.
pickle_dumps(o) ==
    [cls |-> o.cls,
     state |-> [k \in statefields(o.cls) |-> InstanceDict(o)[k]],
     values |-> o.dict]

\* pickle.loads(pickled): a new instance of the class with the state put
\* back; an attribute that is not in the state is as the constructor left it.
pickle_loads(pickled) ==
    [k \in DOMAIN New(pickled.cls) |->
        IF k \in DOMAIN pickled.state THEN pickled.state[k]
        ELSE IF k = "dict" THEN pickled.values
        ELSE IF k = "via" THEN "pickle"
        ELSE New(pickled.cls)[k]]

\* DataObject.__eq__: instances of the same class whose declared fields all
\* read equal.
DataObject__eq__(a, b) ==
    /\ a.cls = b.cls
    /\ \A k \in DOMAIN fields(a.cls) :
          GetAttr(a, k, TransportRaises).val = GetAttr(b, k, TransportRaises).val

\* cloned_obj = pickle.loads(pickle.dumps(obj)).
Pickle ==
    /\ HasObj
    /\ result' = Call("pickle", NoArg, NoError, "None", pickle_loads(pickle_dumps(obj)))
    /\ UNCHANGED <<obj, requests, depth, failed, heap, classes_by_name, declared, threads, hashseed>>

\* The values the pickling test gives the fields of an instance.
PickleValues == {"fred"}

\* Pickling: instances are constructed or obtained with get(), delivered,
\* read, updated and assigned to, and pickled at any time.
NextPickle ==
    \/ Construct(PromiseObject)
    \/ \E url \in Urls, http \in Https : Get(PromiseObject, url, http)
    \/ \E response \in Responses : Deliver(response)
    \/ \E attr \in AttrNames, response \in Responses : ReadAttr(attr, response)
    \/ \E data \in Datas : UpdateFromDict(data)
    \/ \E attr \in Fields, value \in PickleValues : SetAttr(attr, value)
    \/ Pickle

SpecPickle == Init /\ [][NextPickle]_vars

\* Two threads on one instance.  A call of a thread is made of the steps
\* between which another thread can run: the test of _get_api_data (line
\* 32), the tests of deliver (lines 69-72), the call of http.request (lines
\* 74-79), in which the thread waits for the transport, the return of that
\* call, the clearing of the stored values (lines 87-89), the assignment of
\* the data (line 91), the mark (line 98) and the read of the data (line
\* 34).
InitRace ==
    /\ \E url \in Urls, http \in Https : obj = [get(PromiseObject, url, http) EXCEPT !.id = 1]
    /\ requests = 0
    /\ depth = 0
    /\ failed = FALSE
    /\ heap = EmptyHeap
    /\ classes_by_name = EmptyDict
    /\ declared = <<>>
    /\ threads = NoThreads
    /\ hashseed = 0
    /\ result = Call("start", NoArg, NoError, "None", NoObj)

\* The call of thread t returns val, or raises exc.
ThreadReturns(t, exc, val) ==
    /\ threads' = [threads EXCEPT ![t] = Idle]
    /\ result' = Call(threads[t].op, [thread |-> t], exc, val, obj')

\* Thread t goes on with its call, at pc.
ThreadGoes(t, pc) ==
    /\ threads' = [threads EXCEPT ![t].pc = pc]
    /\ UNCHANGED <<obj, result>>

\* Thread t calls obj.deliver(), or reads obj.name.
ThreadCall(t, op) ==
    /\ threads[t].pc = "idle"
    /\ threads' = [threads EXCEPT ![t] = Thread(IF op = "getattr" THEN "read" ELSE "deliver",
                                                op, TransportRaises)]
    /\ UNCHANGED <<obj, requests, result, depth, failed, heap, classes_by_name, declared, hashseed>>

\* Field.__get__ and _get_api_data, line 32: a stored value is returned at
\* once; the data of a delivered instance is read next; otherwise deliver is
\* called.
ThreadRead(t) ==
    /\ threads[t].pc = "read"
    /\ IF "name" \in DOMAIN obj.dict
       THEN /\ obj' = obj
            /\ ThreadReturns(t, NoError, obj.dict["name"])
       ELSE ThreadGoes(t, IF obj._delivered THEN "data" ELSE "deliver")
    /\ UNCHANGED <<requests, depth, failed, heap, classes_by_name, declared, hashseed>>

\* deliver taken under a lock that is held until the response is installed.
ThreadCheck_locked(t) ==
    /\ threads[t].pc = "deliver"
    /\ \A u \in Threads \ {t} :
          threads[u].pc \notin {"checked", "waiting", "responded", "cleared", "installed"}
    /\ IF deliver(obj, TransportRaises).sent = 0
       THEN /\ obj' = obj
            /\ ThreadReturns(t, deliver(obj, TransportRaises).exc, "None")
       ELSE ThreadGoes(t, "checked")
    /\ UNCHANGED <<requests, depth, failed, heap, classes_by_name, declared, hashseed>>

\* deliver, lines 69-72: the call raises when the instance is delivered or
\* has no location, and goes on to the request otherwise.
ThreadCheck(t) ==
    /\ threads[t].pc = "deliver"
    /\ IF deliver(obj, TransportRaises).sent = 0
       THEN /\ obj' = obj
            /\ ThreadReturns(t, deliver(obj, TransportRaises).exc, "None")
       ELSE ThreadGoes(t, "checked")
    /\ UNCHANGED <<requests, depth, failed, heap, classes_by_name, declared, hashseed>>

\* deliver, lines 74-79: the thread builds the request and calls
\* http.request, which sends it; the thread then waits in that call for the
\* transport, while the other thread runs.
ThreadRequest(t) ==
    /\ threads[t].pc = "checked"
    /\ requests + 1 <= MaxRequests
    /\ requests' = requests + 1
    /\ ThreadGoes(t, "waiting")
    /\ UNCHANGED <<depth, failed, heap, classes_by_name, declared, hashseed>>

\* deliver, line 79: http.request returns the response to the waiting
\* thread, or raises, and deliver with it.
ThreadResponse(t, response) ==
    /\ threads[t].pc = "waiting"
    /\ IF response.raises
       THEN /\ obj' = obj
            /\ failed' = TRUE
            /\ ThreadReturns(t, TransportError, "None")
       ELSE /\ threads' = [threads EXCEPT ![t].pc = "responded", ![t].response = response]
            /\ UNCHANGED <<obj, result, failed>>
    /\ UNCHANGED <<requests, depth, heap, classes_by_name, declared, hashseed>>

\* update_from_response, line 96, up to line 89 of update_from_dict: the
\* response is validated and its body tested, which raises or clears the
\* field values stored on the instance.
ThreadClear(t) ==
    /\ threads[t].pc = "responded"
    /\ \E u \in {HttpObject_update_from_response(obj, HttpObject_get_request(obj).uri,
                                                  threads[t].response)} :
          IF u.exc # NoError
          THEN /\ obj' = obj
               /\ failed' = TRUE
               /\ ThreadReturns(t, u.exc, "None")
          ELSE /\ obj' = [obj EXCEPT !.dict = u.obj.dict]
               /\ threads' = [threads EXCEPT ![t].pc = "cleared"]
               /\ UNCHANGED <<result, failed>>
    /\ UNCHANGED <<requests, depth, heap, classes_by_name, declared, hashseed>>

\* update_from_dict, line 91: the body becomes the data of the instance.
ThreadInstall(t) ==
    /\ threads[t].pc = "cleared"
    /\ obj' = [obj EXCEPT !.api_data = threads[t].response.body.items]
    /\ threads' = [threads EXCEPT ![t].pc = "installed"]
    /\ UNCHANGED <<requests, result, depth, failed, heap, classes_by_name, declared, hashseed>>

\* update_from_response, line 98: the instance is marked delivered; deliver
\* returns, to its caller or to _get_api_data.
ThreadMark(t) ==
    /\ threads[t].pc = "installed"
    /\ obj' = [obj EXCEPT !._delivered = TRUE]
    /\ IF threads[t].op = "getattr"
       THEN /\ threads' = [threads EXCEPT ![t].pc = "data"]
            /\ UNCHANGED result
       ELSE ThreadReturns(t, NoError, "None")
    /\ UNCHANGED <<requests, depth, failed, heap, classes_by_name, declared, hashseed>>

\* _get_api_data, line 34, and the rest of Field.__get__: the value the
\* data has for the field is stored on the instance and returned, the
\* default of the field when the data has none.
ThreadData(t) ==
    /\ threads[t].pc = "data"
    /\ LET data == Deref(obj.api_data)
       IN IF "name" \in DOMAIN data
          THEN /\ obj' = [obj EXCEPT !.dict = ("name" :> FieldValue(data, "name")) @@ @]
               /\ ThreadReturns(t, NoError, FieldValue(data, "name"))
          ELSE /\ obj' = obj
               /\ ThreadReturns(t, NoError, fields(obj.cls)["name"].default)
    /\ UNCHANGED <<requests, depth, failed, heap, classes_by_name, declared, hashseed>>

NextRace ==
    \/ \E t \in Threads, op \in {"deliver", "getattr"} : ThreadCall(t, op)
    \/ \E t \in Threads : ThreadRead(t)
    \/ \E t \in Threads : ThreadCheck(t)
    \/ \E t \in Threads : ThreadRequest(t)
    \/ \E t \in Threads, response \in Responses : ThreadResponse(t, response)
    \/ \E t \in Threads : ThreadClear(t)
    \/ \E t \in Threads : ThreadInstall(t)
    \/ \E t \in Threads : ThreadMark(t)
    \/ \E t \in Threads : ThreadData(t)

SpecRace == InitRace /\ [][NextRace]_vars

\* ------------------------------------------------------------------ claims

\* The step is a read of a declared field of obj.
FieldRead == result'.op = "getattr" /\ result'.arg.attr \in Fields

\* C1, as stated: for an instance obtained via get(url), url a location, the
\* first read of a declared field issues exactly one transport request and
\* makes the instance delivered, and every later read of a declared field
\* issues none.
C1_FirstReadDelivers ==
    [][(FieldRead /\ obj.via = "get" /\ obj._location # NoneLoc) =>
          IF obj._delivered THEN requests' = requests
          ELSE requests' = requests + 1 /\ obj'._delivered]_vars

\* C1, amended: for an instance obtained via get(url) with a url that is not
\* None, a read of a declared field that is not stored on the instance
\* issues, while the instance is undelivered, exactly one transport request,
\* and the instance is delivered afterwards exactly when that delivery did
\* not fail; a read on a delivered instance issues no transport request and
\* leaves it delivered.  With no location, or with the field stored on the
\* instance, no request is issued and the instance stays undelivered.
C1_ReadDeliversOnSuccess ==
    [][(FieldRead /\ obj.via = "get") =>
          IF obj._delivered
          THEN requests' = requests /\ obj'._delivered
          ELSE IF obj._location = NoneLoc \/ result'.arg.attr \in DOMAIN obj.dict
          THEN requests' = requests /\ ~obj'._delivered
          ELSE /\ requests' = requests + 1
               /\ obj'._delivered <=> result'.exc \notin DeliveryFailures]_vars

\* A first read has fetched and delivered an instance obtained via get().
C1_Witness ==
    /\ result.op = "getattr"
    /\ result.arg.attr = "name"
    /\ result.val = "Mollifred"
    /\ obj.via = "get"
    /\ obj._delivered
    /\ requests = 1
    /\ ~failed

\* C2: get(url, http) returns a new instance that is undelivered, located at
\* url, with http as its transport override, and issues no transport
\* request.
C2_GetReturnsUndelivered ==
    [][result'.op = "get" =>
          /\ result'.ret = obj'
          /\ HasObj => obj'.id # obj.id
          /\ obj'.cls = result'.arg.cls
          /\ ~obj'._delivered
          /\ obj'._location = result'.arg.url
          /\ obj'._http = result'.arg.http
          /\ requests' = requests]_vars

\* get() has returned an undelivered instance with a location and a
\* transport of its own, after an earlier delivery had used the transport.
C2_Witness ==
    /\ result.op = "get"
    /\ result.arg.cls = PromiseObject
    /\ obj._location = Url(Whahay, <<>>)
    /\ obj._http = "h"
    /\ ~obj._delivered
    /\ requests = 1

\* C3, as stated: a PromiseObject constructed directly is delivered and
\* empty, with no location, and reading its declared fields never issues a
\* transport request.
C3_ConstructedIsDelivered ==
    [][/\ result'.op = "__init__" =>
             /\ obj'._delivered
             /\ obj'.api_data = EmptyDict
             /\ obj'.dict = EmptyDict
             /\ obj'._location = NoneLoc
       /\ (FieldRead /\ obj.via = "__init__") => requests' = requests]_vars

\* C4: deliver() on an instance that is delivered, or that has no location,
\* raises PromiseError, issues no transport request and leaves the instance
\* as it was.
C4_DeliverRejected ==
    [][(result'.op = "deliver" /\ (obj._delivered \/ obj._location = NoneLoc)) =>
          /\ result'.exc = PromiseError
          /\ requests' = requests
          /\ obj' = obj]_vars

\* A second deliver() on an instance that a request had delivered was
\* rejected.
C4_Witness ==
    /\ result.op = "deliver"
    /\ result.exc = PromiseError
    /\ obj._delivered
    /\ obj._location # NoneLoc
    /\ requests = 1

\* C5: a delivery that fails (the transport raises, the response is
\* rejected, the body cannot be installed) leaves the instance undelivered,
\* and a later deliver() on it is attempted again: it issues a request, is
\* not rejected with PromiseError, and delivers the instance if it succeeds.
C5_FailedDeliveryCanBeRetried ==
    [][/\ (result'.op \in {"deliver", "getattr"} /\ requests' > requests
              /\ result'.exc \in DeliveryFailures) => ~obj'._delivered
       /\ (result'.op = "deliver" /\ failed /\ ~obj._delivered) =>
             /\ requests' = requests + 1
             /\ result'.exc # PromiseError
             /\ result'.exc = NoError <=> obj'._delivered]_vars

\* An instance whose delivery had failed was delivered by a later deliver().
C5_Witness ==
    /\ result.op = "deliver"
    /\ result.exc = NoError
    /\ failed
    /\ obj._delivered
    /\ requests = 2

\* C6: reading, on an undelivered instance, a name that is neither a
\* declared field nor an attribute of the instance raises AttributeError
\* without a delivery: no transport request, the instance as it was.
C6_UndeclaredReadDoesNotDeliver ==
    [][(result'.op = "getattr" /\ result'.arg.attr \notin Fields /\ ~obj._delivered) =>
          /\ result'.exc = AttributeError
          /\ requests' = requests
          /\ obj' = obj]_vars

\* An undeclared name was read on an undelivered instance that a delivery
\* could have filled.
C6_Witness ==
    /\ result.op = "getattr"
    /\ result.arg.attr = "secret"
    /\ result.exc = AttributeError
    /\ obj.cls \in TopClasses
    /\ ~obj._delivered
    /\ obj._location # NoneLoc
    /\ requests = 0

\* What filter() guarantees when it returns: the receiver as it was, no
\* transport request, and a new undelivered instance with the receiver's
\* transport override.
FilterReturns ==
    /\ result'.exc = NoError
    /\ obj' = obj
    /\ requests' = requests
    /\ result'.ret # NoObj
    /\ result'.ret.id # obj.id
    /\ ~result'.ret._delivered
    /\ result'.ret._http = obj._http
    /\ result'.ret.cls = obj.cls

\* C7, as stated: for a receiver in any state, filter(**params) leaves the
\* receiver unchanged, issues no transport request and returns a distinct
\* new undelivered instance with the receiver's transport override.
C7_FilterInAnyState ==
    [][result'.op = "filter" => FilterReturns]_vars

\* C7, amended: for a receiver in any state that has a location,
\* filter(**params) leaves the receiver unchanged, issues no transport
\* request and returns a distinct new undelivered instance with the
\* receiver's transport override; on a receiver whose location is None it
\* raises AttributeError and returns nothing, the receiver unchanged and no
\* transport request issued.
C7_FilterOfLocated ==
    [][result'.op = "filter" =>
          IF obj._location # NoneLoc THEN FilterReturns
          ELSE /\ result'.exc = AttributeError
               /\ result'.ret = NoObj
               /\ obj' = obj
               /\ requests' = requests]_vars

\* filter() on a delivered receiver has returned an undelivered instance
\* with the receiver's transport.
C7_Witness ==
    /\ result.op = "filter"
    /\ obj._delivered
    /\ obj._http = "h"
    /\ requests = 1
    /\ result.ret # NoObj
    /\ ~result.ret._delivered
    /\ result.ret._http = "h"
    /\ result.ret._location = Url(Whahay, << <<"awesome", "yes">> >>)

\* The value str() gives each keyword argument.
StrValues(kwargs) == [k \in DOMAIN kwargs |-> PyStr(kwargs[k])]

\* The query of the derived location is the receiver's with params merged
\* into it: every key once, a key of params with the given value, any other
\* key with the (first) value it has in the receiver's query.
MergedQuery(old, params, new) ==
    LET was == parse_qs(old)
        is == parse_qs(new)
    IN /\ DOMAIN is = DOMAIN was \cup DOMAIN params
       /\ Len(new) = Cardinality(DOMAIN is)
       /\ \A k \in DOMAIN is :
             is[k] = << IF k \in DOMAIN params THEN params[k] ELSE was[k][1] >>

\* C8: the location of filter(**params)'s result has the receiver's scheme,
\* host and path, and a query in which every key of params has the given
\* value, replacing any value it had, and every other key of the receiver's
\* query keeps its value; a.filter(x=1).filter(x=2) has the query x=2.
C8_FilterMergesQuery ==
    (result.op = "filter" /\ result.exc = NoError) =>
        /\ result.ret._location.base = obj._location.base
        /\ MergedQuery(obj._location.query, StrValues(result.arg.kwargs),
                       result.ret._location.query)

\* The result of filter(awesome='yes') was filtered with awesome='so so':
\* the query holds awesome once, with the new value.
C8_Witness ==
    /\ result.op = "filter"
    /\ depth = 1
    /\ obj._location = Url(Foo, << <<"awesome", "yes">> >>)
    /\ result.arg.kwargs = ("awesome" :> StrV("so so"))
    /\ result.ret._location = Url(Foo, << <<"awesome", "so+so">> >>)

\* The keys of a query string in textual order, each at its first place.
RECURSIVE QueryKeySeq(_)
QueryKeySeq(query) ==
    IF query = <<>> THEN <<>>
    ELSE LET front == QueryKeySeq(SubSeq(query, 1, Len(query) - 1))
             k == query[Len(query)][1]
         IN IF k \in QueryKeySet(SubSeq(query, 1, Len(query) - 1))
            THEN front ELSE Append(front, k)

\* C9, amended: in the query string filter(**params) produces, every key of
\* the receiver's query and every key of params appears exactly once; the
\* keys come in the iteration order of the dictionary they were merged in,
\* which need not keep the order they have in the receiver's query nor put
\* the new keys last.
C9_FilterKeysOnceInDictOrder ==
    (result.op \in {"filter", "__getitem__"} /\ result.exc = NoError) =>
        LET new == result.ret._location.query
            keys == QueryKeySet(obj._location.query)
                       \cup (IF result.op = "filter" THEN DOMAIN result.arg.kwargs
                             ELSE {"offset", "limit"})
        IN /\ QueryKeySet(new) = keys
           /\ \A i, j \in DOMAIN new : new[i][1] = new[j][1] => i = j

\* filter(awesome='yes') on a receiver at offset=7&limit=10 returned a
\* location whose query starts with the new key and has the receiver's keys
\* in the opposite order.
C9_Witness ==
    /\ result.op = "filter"
    /\ result.arg.kwargs = ("awesome" :> StrV("yes"))
    /\ obj._location = Url(Foo, << <<"offset", "7">>, <<"limit", "10">> >>)
    /\ result.ret._location =
          Url(Foo, << <<"awesome", "yes">>, <<"limit", "10">>, <<"offset", "7">> >>)

\* C9, as stated: in the query string filter(**params) produces, the keys of
\* the receiver's query that params does not touch keep their relative
\* order, and the keys new to the query come after all of them.
C9_FilterKeepsKeyOrder ==
    (result.op = "filter" /\ result.exc = NoError) =>
        LET old == QueryKeySeq(obj._location.query)
            new == QueryKeySeq(result.ret._location.query)
            params == DOMAIN result.arg.kwargs
            untouched == SelectSeq(old, LAMBDA k : k \notin params)
            present == QueryKeySet(obj._location.query)
        IN /\ SelectSeq(new, LAMBDA k : k \in present /\ k \notin params) = untouched
           /\ \A i, j \in DOMAIN new :
                 (new[i] \notin present /\ new[j] \in present) => j < i

\* C10: obj[start:stop] on an undelivered list returns what
\* filter(offset=start, limit=stop-start) returns: a new undelivered
\* instance whose location has the receiver's query with offset=start and
\* limit=stop-start merged into it; the receiver is not delivered, no
\* transport request is issued and no element is returned.
C10_SliceIsFilter ==
    (result.op = "__getitem__" /\ IsSlice(result.arg.key)) =>
        LET start == result.arg.key.start
            stop == result.arg.key.stop
        IN /\ ~obj._delivered
           /\ result.exc = NoError
           /\ result.val = "None"
           /\ requests = 0
           /\ result.ret # NoObj
           /\ result.ret.id # obj.id
           /\ result.ret.cls = obj.cls
           /\ ~result.ret._delivered
           /\ result.ret._http = obj._http
           /\ result.ret._location.base = obj._location.base
           /\ MergedQuery(obj._location.query,
                          ("offset" :> PyStr(IntV(start)))
                              @@ ("limit" :> PyStr(IntV(stop - start))),
                          result.ret._location.query)

\* obj[0:5] on an undelivered list whose query already held offset and
\* limit returned an undelivered list at offset=0 and limit=5.
C10_Witness ==
    /\ result.op = "__getitem__"
    /\ result.arg.key = Slice(0, 5)
    /\ ~obj._delivered
    /\ obj._location = Url(Foo, << <<"offset", "7">>, <<"limit", "10">> >>)
    /\ result.ret # NoObj
    /\ ~result.ret._delivered
    /\ result.ret._location = Url(Foo, << <<"limit", "5">>, <<"offset", "0">> >>)

\* The step is an access obj[n] with a single ordinal index n.
OrdinalIndex == result'.op = "__getitem__" /\ ~IsSlice(result'.arg.key)

ReadVal(attr) == GetAttr(obj, attr, TransportRaises).val
Exported == to_dict(obj, TransportRaises).val

\* The caller holds the mapping the instance was built from.
BuiltFromInitial == HasObj /\ obj.via = "from_dict" /\ heap.initial # "None"

\* C12: from_dict(m) returns a delivered instance whose data is m, without a
\* transport request; reading a declared field of it, or calling to_dict on
\* it, issues no transport request and does not fail.
C12_FromDictIsDelivered ==
    [][/\ result'.op = "from_dict" =>
             /\ result'.ret = obj'
             /\ IsPromise(obj') => obj'._delivered
             /\ obj'.api_data = Ref(heap'.initial)
             /\ Deref(obj.api_data)' = Alloc(heap'.initial, result'.arg.data)[heap'.initial]
             /\ requests' = requests
       /\ (/\ HasObj
           /\ obj.via = "from_dict"
           /\ \/ result'.op = "to_dict"
              \/ result'.op = "getattr" /\ result'.arg.attr \in DOMAIN fields(obj.cls)) =>
             /\ requests' = requests
             /\ result'.exc = NoError
             /\ IsPromise(obj') => obj'._delivered]_vars

\* An instance built with from_dict was read and exported without a request.
C12_Witness ==
    /\ result.op = "to_dict"
    /\ obj.via = "from_dict"
    /\ IsPromise(obj)
    /\ obj._delivered
    /\ obj.dict = ("name" :> "foo")
    /\ "name" \in DOMAIN heap.cells["d"]
    /\ heap.cells["d"]["name"] = "foo"
    /\ requests = 0

\* C13, as stated: after x = from_dict(m), x an instance of a class declared
\* on the promise class, changing the value of a top-level key of m through
\* the caller's reference changes neither the value x returns for a field
\* nor what x.to_dict() returns.  (update_from_dict, line 91, keeps m itself
\* as the data of the instance, so the write shows in both.)
C13_InputMappingIsIsolated ==
    [][(/\ BuiltFromInitial
        /\ IsPromise(obj)
        /\ result'.op = "setitem"
        /\ result'.arg.who = "initial") =>
          /\ \A attr \in DOMAIN fields(obj.cls) : ReadVal(attr)' = ReadVal(attr)
          /\ Exported' = Exported]_vars

\* C14: after x = from_dict(m), a change inside a dictionary nested in m
\* under a key no field models shows in what every later x.to_dict()
\* returns: the nested dictionary of the output is equal to m's as it is
\* at the time of the call.
C14_NestedInputIsAliased ==
    [][(/\ BuiltFromInitial
        /\ result'.op = "to_dict"
        /\ "secret" \in DOMAIN heap.cells[heap.initial]
        /\ IsCell(heap.cells[heap.initial]["secret"])) =>
          /\ result'.exc = NoError
          /\ "secret" \in DOMAIN heap'.cells["d"]
          /\ heap'.cells["d"]["secret"] \in DOMAIN heap'.cells
          /\ heap'.cells[heap'.cells["d"]["secret"]]
                = heap.cells[heap.cells[heap.initial]["secret"]]]_vars

\* After initial['secret']['code'] = 'steak', to_dict() returned a mapping
\* with 'steak' in its nested dictionary.
C14_Witness ==
    /\ result.op = "to_dict"
    /\ obj.via = "from_dict"
    /\ {"m1.secret", "d", "d.secret"} \subseteq DOMAIN heap.cells
    /\ heap.cells["m1.secret"]["code"] = "steak"
    /\ heap.cells["d"]["secret"] = "d.secret"
    /\ heap.cells["d.secret"]["code"] = "steak"

\* The value under key k of the dictionary top, whose nested dictionaries
\* are in cells: a text, or a dictionary.
DeepItem(cells, top, k) ==
    IF top[k] \in DOMAIN cells THEN [dict |-> cells[top[k]]] ELSE [leaf |-> top[k]]

\* What to_dict() would return now, with the dictionaries nested in it.
ExportedDeep ==
    CHOOSE deep \in {[k \in DOMAIN e.top |-> DeepItem(e.cells @@ heap.cells, e.top, k)] :
                        e \in {Exported}} : TRUE

\* C15: a mapping returned by to_dict() is independent of the instance:
\* adding a key to it, changing a top-level value of it or a value of a
\* dictionary nested in it changes neither the instance, nor the value of
\* any of its fields, nor what a later to_dict() returns.
C15_ExportIsIndependent ==
    [][(HasObj /\ result'.op \in {"setitem", "setnested"} /\ result'.arg.who = "d") =>
          /\ obj' = obj
          /\ Deref(obj.api_data)' = Deref(obj.api_data)
          /\ \A attr \in DOMAIN fields(obj.cls) : ReadVal(attr)' = ReadVal(attr)
          /\ ExportedDeep' = ExportedDeep]_vars

\* After d['secret']['code'] = 'walt sent me' on the mapping to_dict()
\* returned, the dictionary the instance retains still has 'steak'.
C15_Witness ==
    /\ result.op = "setnested"
    /\ result.arg.who = "d"
    /\ HasObj
    /\ obj.api_data = Ref("m1")
    /\ {"m1.secret", "d.secret"} \subseteq DOMAIN heap.cells
    /\ heap.cells["d.secret"]["code"] = "walt sent me"
    /\ heap.cells["m1.secret"]["code"] = "steak"

\* C16: to_dict() has every key of the retained mapping that no field
\* models, with the value the mapping has for it, and reading such a key as
\* an attribute of the instance raises AttributeError.
C16_UnmodelledKeysPassThrough ==
    [][/\ (HasObj /\ result'.op = "to_dict" /\ result'.exc = NoError) =>
             \A k \in DOMAIN Deref(obj.api_data) \ DOMAIN fields(obj.cls) :
                /\ k \in DOMAIN heap'.cells["d"]
                /\ DeepItem(heap'.cells, heap'.cells["d"], k)
                      = DeepItem(heap.cells, Deref(obj.api_data), k)
       /\ (/\ HasObj
           /\ result'.op = "getattr"
           /\ result'.arg.attr \in DOMAIN Deref(obj.api_data) \ DOMAIN fields(obj.cls)) =>
             result'.exc = AttributeError]_vars

\* from_dict({'name': 'foo', 'secret': 'codes'}).to_dict() had 'secret':
\* 'codes', and reading secret on the instance raised AttributeError.
C16_Witness ==
    /\ result.op = "getattr"
    /\ result.arg.attr = "secret"
    /\ result.exc = AttributeError
    /\ obj.via = "from_dict"
    /\ obj.api_data = Ref("m1")
    /\ heap.d = "d"
    /\ "secret" \in DOMAIN heap.cells["d"]
    /\ heap.cells["d"]["secret"] = "codes"
    /\ heap.cells["m1"]["secret"] = "codes"

\* obj.update_from_dict(d) has just returned, d a dictionary.
Updated == HasObj /\ result.op = "update_from_dict" /\ result.exc = NoError

\* C17: update_from_dict(d) of the promise class replaces the data of the
\* instance instead of merging into it: afterwards no value of a declared
\* field decoded or assigned before the call is stored on the instance, its
\* retained raw data is d itself, and to_dict() has the keys of d only,
\* with the values of d (a field present before the call and absent from d
\* is absent from the output).
C17_UpdateReplaces ==
    [][(Updated' /\ IsPromise(obj')) =>
          /\ obj'.dict = EmptyDict
          /\ obj'.api_data = Ref(heap'.initial)
          /\ Deref(obj.api_data)' = Alloc(heap'.initial, result'.arg.data)[heap'.initial]
          /\ \A e \in {ExportedDeep'} :
                /\ DOMAIN e = DOMAIN Deref(obj.api_data)'
                /\ \A k \in DOMAIN e :
                      e[k] = DeepItem(heap'.cells, Deref(obj.api_data)', k)]_vars

\* x = from_dict({'name': 'foo', 'secret': 'codes'}), of a class declared on
\* the promise class, was exported, with name, and then updated from
\* {'secret': 'codes'}: it holds no name.
C17_Witness ==
    /\ Updated
    /\ IsPromise(obj)
    /\ obj.dict = EmptyDict
    /\ Deref(obj.api_data) = ("secret" :> "codes")
    /\ heap.d = "d"
    /\ "name" \in DOMAIN heap.cells["d"]
    /\ ReadVal("name") = "None"

\* d = obj.to_dict() has just returned.
Exports == HasObj /\ result.op = "to_dict" /\ result.exc = NoError

\* C18, as stated: a key is in what to_dict() returns only if it is in the
\* retained raw mapping or its field was assigned.
C18_NoKeyWithoutInput ==
    [][Exports' =>
          \A k \in DOMAIN heap'.cells["d"] :
             k \in DOMAIN Deref(obj.api_data) \/ k \in heap.assigned]_vars

\* The step is a read of a link of obj, which has a location.
LinkRead ==
    /\ HasObj
    /\ IsUrl(obj._location)
    /\ result'.op = "getattr"
    /\ result'.arg.attr \in DOMAIN links(obj.cls)

\* C19: reading a Link field of an owner with location L returns an
\* undelivered instance of the class of the link, at L joined with the name
\* of the field (http://example.com/bwuh/ and toybox give
\* http://example.com/bwuh/toybox, whatever the query of L;
\* http://example.com/foo and toybox give http://example.com/toybox); the
\* read issues no request and leaves the owner as it is, delivered or not.
C19_LinkReadDerives ==
    [][LinkRead =>
          /\ result'.exc = NoError
          /\ result'.ret # NoObj
          /\ result'.ret.cls = Toy
          /\ ~result'.ret._delivered
          /\ result'.ret.api_data = EmptyDict
          /\ result'.ret._location =
                Url(IF obj._location.base = "http://example.com/bwuh/"
                    THEN "http://example.com/bwuh/toybox"
                    ELSE "http://example.com/toybox", <<>>)
          /\ requests' = requests
          /\ obj' = obj]_vars

\* r = Room.get('http://example.com/bwuh/'), not delivered, and b = r.toybox
\* is an undelivered Toy at http://example.com/bwuh/toybox.
C19_Witness ==
    /\ result.op = "getattr"
    /\ result.arg.attr = "toybox"
    /\ obj.cls = Room
    /\ obj._location = Url("http://example.com/bwuh/", <<>>)
    /\ ~obj._delivered
    /\ requests = 0
    /\ result.ret # NoObj
    /\ result.ret.cls = Toy
    /\ ~result.ret._delivered
    /\ result.ret._location = Url("http://example.com/bwuh/toybox", <<>>)

\* The class declared last among those of the given name.
LastDeclared(name) ==
    declared[CHOOSE i \in 1..Len(declared) :
                /\ ClassName(declared[i]) = name
                /\ \A j \in (i + 1)..Len(declared) : ClassName(declared[j]) # name]

\* The step decodes the reference attr of obj: it reads it, and no instance
\* is stored for it yet.
Decodes(attr) ==
    /\ HasObj
    /\ result'.op = "getattr"
    /\ result'.arg.attr = attr
    /\ attr \in DOMAIN references(obj.cls)
    /\ attr \notin DOMAIN obj.dict

\* C20: a reference declared with the name of a class is resolved when its
\* value is decoded: the instance is of the class declared last with that
\* name among those declared by then, whether that class is the owner's
\* own, was declared before the owner's or after it.
C20_ReferenceResolvesAtDecode ==
    [][\A attr \in {"itself", "related", "other"} :
          Decodes(attr) =>
             /\ result'.exc = NoError
             /\ result'.ret # NoObj
             /\ result'.ret.cls = LastDeclared(references(obj.cls)[attr].cls)
             /\ obj'.dict = (attr :> result'.ret) @@ obj.dict]_vars

\* Referencive was declared before Related, and Related of the test after
\* both: the related of an instance of Referencive is a Related of the test.
C20_Witness ==
    /\ result.op = "getattr"
    /\ result.arg.attr = "related"
    /\ HasObj
    /\ obj.cls = Referencive
    /\ result.ret # NoObj
    /\ result.ret.cls = test_Related
    /\ Len(declared) >= 3
    /\ declared[1] = Referencive
    /\ declared[2] = Related
    /\ declared[3] = test_Related

\* C21: for every promise type, the Netflix example types Title and Catalog
\* included, a deliver() that returns without error leaves the instance
\* delivered: a field read after it issues no transport request and a second
\* deliver() fails with a delivery error; a do_search that returns has sent
\* one request, that of its deliver().
C21_DeliverLeavesDelivered ==
    [][/\ (HasObj /\ result'.op = "deliver" /\ result'.exc = NoError) =>
             \A o \in {obj'} :
                /\ o._delivered
                /\ \A attr \in DOMAIN fields(o.cls), response \in FlixResponses :
                      GetAttr(o, attr, response).sent = 0
                /\ \A response \in FlixResponses :
                      SelfDeliver(o, response).exc = PromiseError
       /\ (result'.op = "do_search" /\ result'.exc = NoError) =>
             /\ requests' = requests + 1
             /\ obj'._delivered]_vars

\* The points of deliver() between its check (lines 69-72) and its mark
\* (line 98), and those of them at which the request of the call is out.
PastCheck == {"checked", "waiting", "responded", "cleared", "installed"}
PastRequest == PastCheck \ {"checked"}

\* C22: nothing in deliver() makes its already-delivered check and the
\* change of the delivered flag atomic.  While one thread is between the
\* check and the mark of an instance that is not yet marked delivered,
\* another thread that enters deliver() on the instance passes the check as
\* well; while the request of one thread is out, another thread that has
\* passed the check issues a request of its own; and every thread past its
\* request has issued one, so that two such threads make two requests for
\* the one instance.
C22_CheckNotAtomic ==
    /\ \A t \in Threads : \A u \in Threads \ {t} :
          (/\ threads[u].pc \in PastCheck
           /\ threads[t].pc = "deliver"
           /\ ~obj._delivered) =>
             ENABLED (ThreadCheck(t) /\ threads'[t].pc = "checked")
    /\ \A t \in Threads : \A u \in Threads \ {t} :
          (/\ threads[u].pc \in PastRequest
           /\ threads[t].pc = "checked"
           /\ requests < MaxRequests) =>
             ENABLED (ThreadRequest(t) /\ requests' = requests + 1)
    /\ requests >= Cardinality({t \in Threads : threads[t].pc \in PastRequest})
    /\ (\E t \in Threads : threads[t].pc \in PastCheck) => obj._location # NoneLoc

\* Both threads have passed the check of the same undelivered instance, and
\* two requests have been sent and answered for it before either marked it
\* delivered.
C22_Witness ==
    /\ \A t \in Threads : threads[t].pc = "responded"
    /\ ~obj._delivered
    /\ requests = 2

\* C23: pickling and then unpickling a promise instance preserves its
\* delivered flag and its raw data: the copy is delivered exactly when the
\* original is and has the original's api_data; the copy of a delivered
\* instance compares equal to it; pickling issues no transport request and
\* reading the api_data of the copy of a delivered instance issues none.
C23_PicklingPreservesDelivered ==
    [][result'.op = "pickle" =>
          \A copy \in {result'.ret} :
             /\ copy._delivered = obj._delivered
             /\ copy.api_data = obj.api_data
             /\ copy.cls = obj.cls
             /\ requests' = requests
             /\ obj' = obj
             /\ obj._delivered =>
                   /\ DataObject__eq__(copy, obj)
                   /\ \A response \in Responses :
                         /\ _get_api_data(copy, response).sent = 0
                         /\ _get_api_data(copy, response).exc = NoError]_vars

\* A delivered instance with data from a response and an assigned field was
\* pickled, and so was an undelivered instance.
C23_Witness ==
    /\ result.op = "pickle"
    /\ obj._delivered
    /\ obj.via = "get"
    /\ requests = 1
    /\ "name" \in DOMAIN obj.api_data
    /\ "name" \in DOMAIN obj.dict
    /\ obj.dict["name"] = "fred"
    /\ result.ret._delivered

\* The calls C24 is about.
FlagCalls == {"deliver", "getattr", "filter", "update_from_dict", "update_from_response"}

\* C24: the delivered flag is monotonic: a deliver(), a read of an
\* attribute, a filter(), an update_from_dict() or an update_from_response()
\* on a delivered instance leaves it delivered, whether the call returns or
\* raises.
C24_DeliveredIsMonotonic ==
    [][(HasObj /\ obj._delivered /\ result'.op \in FlagCalls) =>
          /\ obj'.id = obj.id
          /\ obj'._delivered]_vars

\* update_from_response() was called on a delivered instance with a response
\* that it rejects, and the instance is still delivered.
C24_Witness ==
    /\ result.op = "update_from_response"
    /\ result.exc \in {ResponseError, ContentTypeError, TypeError}
    /\ obj.via = "get"
    /\ obj._delivered
    /\ requests = 1

\* The keys a query string holds more than once.
Repeated(query) ==
    {k \in QueryKeySet(query) : Len(SelectSeq(query, LAMBDA p : p[1] = k)) > 1}

\* C25: when the receiver's query holds a key more than once, the location
\* filter() derives holds the key once; with the first of its values when
\* params does not mention the key (also when params is empty), the others
\* are dropped.
C25_FilterKeepsFirstOfRepeated ==
    (result.op = "filter" /\ result.exc = NoError) =>
        \A old \in {obj._location.query}, new \in {result.ret._location.query} :
           \A k \in Repeated(old) :
              /\ Len(SelectSeq(new, LAMBDA p : p[1] = k)) = 1
              /\ k \notin DOMAIN result.arg.kwargs =>
                    /\ parse_qs(new)[k] = << parse_qs(old)[k][1] >>
                    /\ parse_qs(old)[k][2] # parse_qs(old)[k][1]
                    /\ \A i \in DOMAIN new : new[i][1] = k =>
                          unquote_plus(new[i][2]) # parse_qs(old)[k][2]

\* filter() without arguments on a receiver at awesome=so+so&awesome=no
\* returned an instance at awesome=so+so.
C25_Witness ==
    /\ result.op = "filter"
    /\ result.arg.kwargs = EmptyDict
    /\ obj._location = Url(Whahay, << <<"awesome", "so+so">>, <<"awesome", "no">> >>)
    /\ result.ret._location = Url(Whahay, << <<"awesome", "so+so">> >>)

\* C26: update_from_dict(data) with data that is not a dictionary raises
\* TypeError before it changes anything: the stored field values, the
\* retained mapping and the delivered flag of the instance are as they were,
\* the mappings the caller holds too, and no transport request is issued.
C26_UpdateFromNonDictChangesNothing ==
    [][(result'.op = "update_from_dict" /\ "isdict" \in DOMAIN result'.arg.data
          /\ ~result'.arg.data.isdict) =>
          /\ result'.exc = TypeError
          /\ obj'.dict = obj.dict
          /\ obj'.api_data = obj.api_data
          /\ IsPromise(obj) => obj'._delivered = obj._delivered
          /\ obj' = obj
          /\ heap'.cells = heap.cells
          /\ requests' = requests]_vars

\* update_from_dict with a non-dictionary was rejected on a delivered
\* instance that has data and a stored field value.
C26_Witness ==
    /\ result.op = "update_from_dict"
    /\ result.exc = TypeError
    /\ IsPromise(obj)
    /\ obj._delivered
    /\ "name" \in DOMAIN obj.dict
    /\ "name" \in DOMAIN Deref(obj.api_data)

====
